---- MODULE Spec2Model ----
(***************************************************************************)
(* Model of hcl, a help-text to shell-completion converter.                *)
(*                                                                         *)
(* A Rust String is modelled as a sequence of characters; a character is   *)
(* a one-character TLA+ string, or a token for a character that has no     *)
(* convenient literal: "TAB", "LF", "CR", "FF", "VT", "DQUOTE",            *)
(* "BACKSLASH", "BACKTICK", "QUOTE", "NBSP" (U+00A0), "ENSP" (U+2002),     *)
(* "EMSP" (U+2003),                                                        *)
(* "BULLET" (U+2022), "EACUTE" (U+00E9), "CAP_EACUTE" (U+00C9).            *)
(* The empty String is << >>.                                              *)
(***************************************************************************)
EXTENDS Integers, Sequences, FiniteSets, TLC

VARIABLES
    op,        \* the operation under way
    pc,        \* position of the running operation
    input,     \* the value handed to the operation: a text, or a loaded Command
    out,       \* the value the operation returned
    cmd,       \* the Command tree held by main
    fixes,     \* how many times fix_command has been applied to cmd
    blocks,    \* Layout: the blocks of input
    tasks,     \* Layout: per block, "todo" | "running" | "done"
    results,   \* Layout: per block, the result of its parse
    order,     \* Layout: block indices in the order their parses finished
    workers,   \* Layout: size of the worker pool
    cursor,    \* Parser::preprocess: the index i of the line its loop is at
    collected  \* Parser::preprocess: the pairs pushed to its result so far

vars == <<op, pc, input, out, cmd, fixes, blocks, tasks, results, order, workers,
          cursor, collected>>

----------------------------------------------------------------------------
(* Characters *)

Printable ==
    << " ", "!", "DQUOTE", "#", "$", "%", "&", "QUOTE", "(", ")", "*", "+", ",", "-",
       ".", "/", "0", "1", "2", "3", "4", "5", "6", "7", "8", "9", ":", ";",
       "<", "=", ">", "?", "@",
       "A", "B", "C", "D", "E", "F", "G", "H", "I", "J", "K", "L", "M",
       "N", "O", "P", "Q", "R", "S", "T", "U", "V", "W", "X", "Y", "Z",
       "[", "BACKSLASH", "]", "^", "_", "BACKTICK",
       "a", "b", "c", "d", "e", "f", "g", "h", "i", "j", "k", "l", "m",
       "n", "o", "p", "q", "r", "s", "t", "u", "v", "w", "x", "y", "z",
       "{", "|", "}", "~" >>

Control == [TAB |-> 9, LF |-> 10, VT |-> 11, FF |-> 12, CR |-> 13]

Wide == [NBSP |-> 160, CAP_EACUTE |-> 201, EACUTE |-> 233,
         ENSP |-> 8194, EMSP |-> 8195, BULLET |-> 8226]

Alphabet ==
    {Printable[i] : i \in DOMAIN Printable} \cup DOMAIN Control \cup DOMAIN Wide

\* the Unicode scalar value of a character
CodePoint ==
    [c \in Alphabet |->
        IF c \in DOMAIN Control THEN Control[c]
        ELSE IF c \in DOMAIN Wide THEN Wide[c]
        ELSE 31 + (CHOOSE i \in DOMAIN Printable : Printable[i] = c)]

\* the UTF-8 encoding of a character, as a sequence of byte values
Utf8 ==
    [c \in Alphabet |->
        LET n == CodePoint[c] IN
        IF n < 128 THEN <<n>>
        ELSE IF n < 2048 THEN <<192 + (n \div 64), 128 + (n % 64)>>
        ELSE <<224 + (n \div 4096), 128 + ((n \div 64) % 64), 128 + (n % 64)>>]

\* char::is_whitespace (Unicode White_Space), on the alphabet
is_whitespace(c) == c \in {" ", "TAB", "LF", "VT", "FF", "CR", "NBSP", "ENSP", "EMSP"}

\* u8::is_ascii_whitespace
is_ascii_whitespace(b) == b \in {32, 9, 10, 12, 13}

\* char::is_alphanumeric, on the alphabet
is_alphanumeric(c) ==
    LET n == CodePoint[c] IN
    \/ (n >= 48 /\ n <= 57)
    \/ (n >= 65 /\ n <= 90)
    \/ (n >= 97 /\ n <= 122)
    \/ c \in {"EACUTE", "CAP_EACUTE"}

\* char::to_lowercase, on the alphabet
lower_char(c) ==
    LET n == CodePoint[c] IN
    IF n >= 65 /\ n <= 90 THEN Printable[n + 32 - 31]
    ELSE IF c = "CAP_EACUTE" THEN "EACUTE"
    ELSE c

----------------------------------------------------------------------------
(* Strings *)

\* concatenation of a sequence of sequences (Iterator::flat_map + collect,
\* String::push_str in a loop)
RECURSIVE Flatten(_)
Flatten(q) ==
    IF Len(q) = 0 THEN << >>
    ELSE IF Len(q) = 1 THEN q[1]
    ELSE LET h == Len(q) \div 2
         IN  Flatten(SubSeq(q, 1, h)) \o Flatten(SubSeq(q, h + 1, Len(q)))

\* str::as_bytes
as_bytes(s) == Flatten([i \in DOMAIN s |-> Utf8[s[i]]])

\* str::len: the length in bytes
len(s) == Len(as_bytes(s))

\* a failed bounds or char-boundary check: the operation panics
Panic == <<"PANIC">>

\* &s[n..]: the text from byte offset n on; n must lie on a char boundary
slice_from(s, n) ==
    LET at == {k \in 0..Len(s) : len(SubSeq(s, 1, k)) = n}
    IN  IF at = {} THEN Panic
        ELSE SubSeq(s, (CHOOSE k \in at : TRUE) + 1, Len(s))

\* &s[..n]: the text before byte offset n; n must lie on a char boundary
slice_to(s, n) ==
    LET at == {k \in 0..Len(s) : len(SubSeq(s, 1, k)) = n}
    IN  IF at = {} THEN Panic
        ELSE SubSeq(s, 1, CHOOSE k \in at : TRUE)

\* str::to_lowercase
to_lowercase(s) == [i \in DOMAIN s |-> lower_char(s[i])]

\* str::starts_with
starts_with(s, p) == Len(p) <= Len(s) /\ SubSeq(s, 1, Len(p)) = p

\* str::find: the 0-based index of the first occurrence, -1 for None
find(s, p) ==
    LET hits == {i \in 1..(Len(s) - Len(p) + 1) : SubSeq(s, i, i + Len(p) - 1) = p}
    IN  IF hits = {} THEN -1
        ELSE (CHOOSE i \in hits : \A j \in hits : i <= j) - 1

\* str::contains
contains(s, p) == \E i \in 1..(Len(s) - Len(p) + 1) : SubSeq(s, i, i + Len(p) - 1) = p

\* str::trim_start
trim_start(s) ==
    LET solid == {i \in DOMAIN s : ~is_whitespace(s[i])}
    IN  IF solid = {} THEN << >>
        ELSE SubSeq(s, CHOOSE i \in solid : \A j \in solid : i <= j, Len(s))

\* str::trim_end
trim_end(s) ==
    LET solid == {i \in DOMAIN s : ~is_whitespace(s[i])}
    IN  IF solid = {} THEN << >>
        ELSE SubSeq(s, 1, CHOOSE i \in solid : \A j \in solid : i >= j)

\* str::trim
trim(s) == trim_end(trim_start(s))

\* str::split on a set of separator characters: the pieces between the
\* separators, one more than there are separators
split(s, seps) ==
    LET at == {i \in DOMAIN s : s[i] \in seps}
        n == Cardinality(at)
        \* the position of the k-th separator; 0 and Len(s) + 1 bound the text
        cut(k) == IF k = 0 THEN 0
                  ELSE IF k = n + 1 THEN Len(s) + 1
                  ELSE CHOOSE i \in at : Cardinality({j \in at : j < i}) = k - 1
    IN  [k \in 1..(n + 1) |-> SubSeq(s, cut(k - 1) + 1, cut(k) - 1)]

\* the non-empty elements of a sequence, in order
SelectNonEmpty(q) ==
    Flatten([i \in DOMAIN q |-> IF q[i] = << >> THEN << >> ELSE <<q[i]>>])

\* str::split_whitespace
split_whitespace(s) ==
    SelectNonEmpty(split(s, {c \in Alphabet : is_whitespace(c)}))

\* str::lines (and bstr's ByteSlice::lines): split at LF, a final line ending
\* is optional, a CR directly before the LF belongs to the line ending
lines(s) ==
    LET segs == split(s, {"LF"})
        n == Len(segs)
        strip(l) == IF l # << >> /\ l[Len(l)] = "CR" THEN SubSeq(l, 1, Len(l) - 1) ELSE l
    IN  [i \in 1..(IF segs[n] = << >> THEN n - 1 ELSE n) |->
            IF i < n THEN strip(segs[i]) ELSE segs[i]]

\* [String]::join
join(q, sep) ==
    Flatten([k \in 1..(2 * Len(q) - 1) |->
                IF k % 2 = 1 THEN q[(k + 1) \div 2] ELSE sep])

\* Ord for str: lexicographic by bytes, which for UTF-8 is by code point
str_lt(a, b) ==
    LET n == IF Len(a) < Len(b) THEN Len(a) ELSE Len(b)
        diff == {i \in 1..n : a[i] # b[i]}
        d == CHOOSE i \in diff : \A j \in diff : i <= j
    IN  IF diff = {} THEN Len(a) < Len(b)
        ELSE CodePoint[a[d]] < CodePoint[b[d]]

\* str::replace(from, to) for a pattern `from` of one character
replace_char(s, from, to) ==
    Flatten([i \in DOMAIN s |-> IF s[i] = from THEN to ELSE <<s[i]>>])

\* str::replace("  ", " "): the matches are taken left to right and do not
\* overlap, so of a run of spaces those at an odd offset in the run go
replace_double_space(s) ==
    LET run_start(i) ==
            LET before == {j \in 1..i : s[j] # " "}
            IN  IF before = {} THEN 1
                ELSE (CHOOSE j \in before : \A k \in before : j >= k) + 1
        second_of_pair(i) == s[i] = " " /\ (i - run_start(i)) % 2 = 1
    IN  Flatten([i \in DOMAIN s |-> IF second_of_pair(i) THEN << >> ELSE <<s[i]>>])

\* all sequences over S of length at most n
RECURSIVE SeqsUpTo(_, _)
SeqsUpTo(S, n) ==
    IF n = 0 THEN {<< >>}
    ELSE LET shorter == SeqsUpTo(S, n - 1)
         IN  shorter \cup {Append(q, x) : q \in {r \in shorter : Len(r) = n - 1}, x \in S}

----------------------------------------------------------------------------
(* types.rs *)

\* Option<T>: None is the empty sequence, Some(x) is <<x>>
Some(x) == <<x>>

OptNameType == <<"LongType", "ShortType", "OldType", "DoubleDashAlone", "SingleDashAlone">>

determine_type_char_count(s) ==
    IF s = <<"-">> THEN Some("SingleDashAlone")
    ELSE IF s = <<"-", "-">> THEN Some("DoubleDashAlone")
    ELSE IF starts_with(s, <<"-", "-">>) THEN Some("LongType")
    ELSE IF starts_with(s, <<"-">>) /\ Len(s) = 2 THEN Some("ShortType")
    ELSE IF starts_with(s, <<"-">>) THEN Some("OldType")
    ELSE << >>

determine_type(s) ==
    IF s = <<"-">> THEN Some("SingleDashAlone")
    ELSE IF s = <<"-", "-">> THEN Some("DoubleDashAlone")
    ELSE IF starts_with(s, <<"-", "-">>) THEN Some("LongType")
    ELSE IF starts_with(s, <<"-">>) /\ len(s) = 2 THEN Some("ShortType")
    ELSE IF starts_with(s, <<"-">>) THEN Some("OldType")
    ELSE << >>

OptName_new(raw, opt_type) == [raw |-> raw, opt_type |-> opt_type]

from_text(s) ==
    LET opt_type == determine_type(s)
    IN  IF opt_type = << >> THEN << >> ELSE Some(OptName_new(s, opt_type[1]))

Command_new(name) ==
    [name |-> name, description |-> << >>, usage |-> << >>,
     options |-> << >>, subcommands |-> << >>, version |-> << >>]

Opt(names, argument, description) ==
    [names |-> names, argument |-> argument, description |-> description]

----------------------------------------------------------------------------
(* parser.rs *)

Separators == {",", "/", "|"}

\* Ord for OptName: by (raw, opt_type), the types in declaration order
type_rank(t) == CHOOSE i \in DOMAIN OptNameType : OptNameType[i] = t

OptName_lt(a, b) ==
    \/ str_lt(a.raw, b.raw)
    \/ a.raw = b.raw /\ type_rank(a.opt_type) < type_rank(b.opt_type)

\* Vec::sort: a stable sort
RECURSIVE sort_insert(_, _)
sort_insert(sorted, x) ==
    IF sorted = << >> THEN <<x>>
    ELSE IF OptName_lt(x, Head(sorted)) THEN <<x>> \o sorted
    ELSE <<Head(sorted)>> \o sort_insert(Tail(sorted), x)

RECURSIVE sort_names(_)
sort_names(names) ==
    IF names = << >> THEN << >>
    ELSE sort_insert(sort_names(SubSeq(names, 1, Len(names) - 1)), names[Len(names)])

\* Vec::dedup: drops every element equal to the one before it
RECURSIVE dedup(_)
dedup(q) ==
    IF Len(q) <= 1 THEN q
    ELSE LET rest == dedup(Tail(q))
         IN  IF Head(q) = Head(rest) THEN rest ELSE <<Head(q)>> \o rest

\* the names one word of a part adds
names_of_word(word) ==
    IF starts_with(word, <<"-">>) THEN from_text(word) ELSE << >>

\* the names one part of the option text adds
names_of_part(part) ==
    LET trimmed == trim(part)
        words == split_whitespace(trimmed)
    IN  IF trimmed = << >> THEN << >>
        ELSE Flatten([i \in DOMAIN words |-> names_of_word(words[i])])

parse_opt_names_as_found(s) ==
    LET parts == split(s, Separators)
    IN  Flatten([i \in DOMAIN parts |-> names_of_part(parts[i])])

parse_opt_names(s) ==
    LET parts == split(s, Separators)
        names == Flatten([i \in DOMAIN parts |-> names_of_part(parts[i])])
    IN  dedup(sort_names(names))

extract_arg_from_part_keeps_dot(s) ==
    LET words == split_whitespace(s)
        arg_part == join(Tail(words), <<" ">>)
    IN  IF Len(words) < 2 THEN << >>
        ELSE IF arg_part = << >> THEN << >>
        ELSE Some(arg_part)

\* Option<String>
extract_arg_from_part(s) ==
    LET words == split_whitespace(s)
        arg_part == join(Tail(words), <<" ">>)
    IN  IF Len(words) < 2 THEN << >>
        ELSE IF arg_part = << >> \/ arg_part = <<".">> THEN << >>
        ELSE Some(arg_part)

RECURSIVE parse_opt_arg_loop(_)
parse_opt_arg_loop(parts) ==
    IF parts = << >> THEN << >>
    ELSE LET arg == extract_arg_from_part(trim(Head(parts)))
         IN  IF arg # << >> /\ arg[1] # << >> THEN arg[1]
             ELSE parse_opt_arg_loop(Tail(parts))

parse_opt_arg(s) == parse_opt_arg_loop(split(s, Separators))

parse_with_opt_part(opt_str, desc_str) ==
    LET names == parse_opt_names(opt_str)
        arg == parse_opt_arg(opt_str)
    IN  IF names = << >> THEN << >>
        ELSE <<Opt(names, arg, desc_str)>>

RECURSIVE opt_end_scan_stops_at_word(_, _, _)
opt_end_scan_stops_at_word(parts, idx, opt_end) ==
    IF idx >= Len(parts) THEN opt_end
    ELSE LET part == parts[idx + 1]
         IN  IF starts_with(part, <<"-">>) \/ idx = 0
             THEN opt_end_scan_stops_at_word(parts, idx + 1, idx + 1)
             ELSE IF contains(part, <<"=">>)
             THEN opt_end_scan_stops_at_word(parts, idx + 1, idx + 1)
             ELSE opt_end

\* the scan for the end of the option portion: parts[idx] is the idx-th token
\* (0-based, as in the source)
RECURSIVE opt_end_scan(_, _, _)
opt_end_scan(parts, idx, opt_end) ==
    IF idx >= Len(parts) THEN opt_end
    ELSE LET part == parts[idx + 1]
         IN  IF starts_with(part, <<"-">>) \/ idx = 0
             THEN opt_end_scan(parts, idx + 1, idx + 1)
             ELSE IF contains(part, <<"=">>) \/ ~starts_with(part, <<"-">>)
             THEN opt_end_scan(parts, idx + 1, idx + 1)
             ELSE opt_end

preprocess_step_any_next_line(ls, i, result) ==
    LET line == ls[i + 1]
        trimmed == trim_start(line)
        parts == split_whitespace(trimmed)
        opt_end == opt_end_scan(parts, 0, 0)
    IN  IF ~starts_with(trimmed, <<"-">>) THEN <<i + 1, result>>
        ELSE IF opt_end > 0 /\ opt_end < Len(parts)
        THEN <<i + 1,
               Append(result, <<join(SubSeq(parts, 1, opt_end), <<" ">>),
                                join(SubSeq(parts, opt_end + 1, Len(parts)), <<" ">>)>>)>>
        ELSE IF opt_end > 0
        THEN LET desc_str == IF i + 1 < Len(ls) THEN trim(ls[i + 2]) ELSE << >>
             IN  IF desc_str # << >>
                 THEN <<i + 2, Append(result, <<trimmed, desc_str>>)>>
                 ELSE <<i + 1, Append(result, <<trimmed, << >> >>)>>
        ELSE <<i + 1, result>>

\* one turn of the while loop of preprocess on the lines ls, i being the
\* 0-based index of the current line: the next i and the next result
preprocess_step(ls, i, result) ==
    LET line == ls[i + 1]
        trimmed == trim_start(line)
        parts == split_whitespace(trimmed)
        opt_end == opt_end_scan(parts, 0, 0)
    IN  IF ~starts_with(trimmed, <<"-">>) THEN <<i + 1, result>>
        ELSE IF opt_end > 0 /\ opt_end < Len(parts)
        THEN <<i + 1,
               Append(result, <<join(SubSeq(parts, 1, opt_end), <<" ">>),
                                join(SubSeq(parts, opt_end + 1, Len(parts)), <<" ">>)>>)>>
        ELSE IF opt_end > 0
        THEN LET desc_str ==
                     IF i + 1 < Len(ls) /\ ~starts_with(trim_start(ls[i + 2]), <<"-">>)
                     THEN trim(ls[i + 2])
                     ELSE << >>
             IN  IF desc_str # << >>
                 THEN <<i + 2, Append(result, <<trimmed, desc_str>>)>>
                 ELSE <<i + 1, Append(result, <<trimmed, << >> >>)>>
        ELSE <<i + 1, result>>

\* the while loop of preprocess
RECURSIVE preprocess_loop(_, _, _)
preprocess_loop(ls, i, result) ==
    IF ~(i < Len(ls)) THEN result
    ELSE LET next == preprocess_step(ls, i, result)
         IN  preprocess_loop(ls, next[1], next[2])

preprocess(s) == preprocess_loop(lines(s), 0, << >>)

RECURSIVE parse_line_loop_seen_by_names(_, _, _)
parse_line_loop_seen_by_names(pairs, seen, opts) ==
    IF pairs = << >> THEN opts
    ELSE LET new == parse_with_opt_part(Head(pairs)[1], Head(pairs)[2])
         IN  IF new # << >> /\ new[1].names \notin seen
             THEN parse_line_loop_seen_by_names(Tail(pairs), seen \cup {new[1].names},
                                                Append(opts, new[1]))
             ELSE parse_line_loop_seen_by_names(Tail(pairs), seen, opts)

\* the loop of parse_line over the pairs, with its seen set
RECURSIVE parse_line_loop(_, _, _)
parse_line_loop(pairs, seen, opts) ==
    IF pairs = << >> THEN opts
    ELSE LET new == parse_with_opt_part(Head(pairs)[1], Head(pairs)[2])
         IN  IF new # << >> /\ new[1] \notin seen
             THEN parse_line_loop(Tail(pairs), seen \cup {new[1]}, Append(opts, new[1]))
             ELSE parse_line_loop(Tail(pairs), seen, opts)

parse_line(s) == parse_line_loop(preprocess(s), {}, << >>)

----------------------------------------------------------------------------
(* layout.rs *)

\* the loop of split_into_blocks_fast; current_block is << >> when empty,
\* a block being its lines joined by LF
RECURSIVE split_blocks_loop_dash_anywhere(_, _, _, _)
split_blocks_loop_dash_anywhere(ls, found, current_block, in_block) ==
    IF ls = << >>
    THEN IF current_block # << >> THEN Append(found, current_block) ELSE found
    ELSE LET line_str == Head(ls)
             trimmed == trim_start(line_str)
         IN  IF trimmed = << >>
             THEN IF in_block /\ current_block # << >>
                  THEN split_blocks_loop_dash_anywhere(Tail(ls), Append(found, current_block),
                                                       << >>, FALSE)
                  ELSE split_blocks_loop_dash_anywhere(Tail(ls), found, current_block, in_block)
             ELSE IF contains(trimmed, <<"-">>) \/ in_block
             THEN split_blocks_loop_dash_anywhere(Tail(ls), found,
                      (IF current_block # << >> THEN current_block \o <<"LF">> ELSE << >>)
                          \o line_str,
                      TRUE)
             ELSE split_blocks_loop_dash_anywhere(Tail(ls), found, current_block, in_block)

RECURSIVE split_blocks_loop_open_after_blank(_, _, _, _)
split_blocks_loop_open_after_blank(ls, found, current_block, in_block) ==
    IF ls = << >>
    THEN IF current_block # << >> THEN Append(found, current_block) ELSE found
    ELSE LET line_str == Head(ls)
             trimmed == trim_start(line_str)
         IN  IF trimmed = << >>
             THEN IF in_block /\ current_block # << >>
                  THEN split_blocks_loop_open_after_blank(Tail(ls),
                           Append(found, current_block), << >>, TRUE)
                  ELSE split_blocks_loop_open_after_blank(Tail(ls), found,
                           current_block, in_block)
             ELSE IF starts_with(trimmed, <<"-">>) \/ in_block
             THEN split_blocks_loop_open_after_blank(Tail(ls), found,
                      (IF current_block # << >> THEN current_block \o <<"LF">> ELSE << >>)
                          \o line_str,
                      TRUE)
             ELSE split_blocks_loop_open_after_blank(Tail(ls), found,
                      current_block, in_block)

RECURSIVE split_blocks_loop(_, _, _, _)
split_blocks_loop(ls, found, current_block, in_block) ==
    IF ls = << >>
    THEN IF current_block # << >> THEN Append(found, current_block) ELSE found
    ELSE LET line_str == Head(ls)
             trimmed == trim_start(line_str)
         IN  IF trimmed = << >>
             THEN IF in_block /\ current_block # << >>
                  THEN split_blocks_loop(Tail(ls), Append(found, current_block), << >>, FALSE)
                  ELSE split_blocks_loop(Tail(ls), found, current_block, in_block)
             ELSE IF starts_with(trimmed, <<"-">>) \/ in_block
             THEN split_blocks_loop(Tail(ls), found,
                      (IF current_block # << >> THEN current_block \o <<"LF">> ELSE << >>)
                          \o line_str,
                      TRUE)
             ELSE split_blocks_loop(Tail(ls), found, current_block, in_block)

split_into_blocks_fast(text) ==
    IF ~contains(text, <<"-">>) THEN << >>
    ELSE split_blocks_loop(lines(text), << >>, << >>, FALSE)

\* the number of blocks above which the blocks are parsed in parallel
ParallelThreshold == 4

\* what parse_blockwise, or preprocess_blockwise, does with one block
parse_block(which, block) ==
    IF which = "parse_blockwise" THEN parse_line(block) ELSE preprocess(block)

\* the sequential path: flat_map over the blocks in order
sequential_path(which, bs) == Flatten([i \in DOMAIN bs |-> parse_block(which, bs[i])])

collect_in_completion_order(res, finished) ==
    Flatten([k \in DOMAIN finished |-> res[finished[k]]])

\* the parallel path: rayon collects the per-block results in the order of
\* the blocks, whatever the order they were produced in
collect(res, finished) == Flatten(res)

\* Layout::parse_blockwise as a function of the text
parse_blockwise(content) ==
    LET bs == split_into_blocks_fast(content)
    IN  IF Len(bs) > ParallelThreshold
        THEN collect([k \in DOMAIN bs |-> parse_block("parse_blockwise", bs[k])],
                     [k \in DOMAIN bs |-> k])
        ELSE sequential_path("parse_blockwise", bs)

----------------------------------------------------------------------------
(* layout.rs: get_option_offsets *)

\* the closures passed by get_long_option_offset and get_short_option_offset
option_predicate(which, line) ==
    IF which = "long" THEN starts_with(line, <<"-", "-">>)
    ELSE starts_with(line, <<"-">>) /\ ~starts_with(line, <<"-", "-">>)

\* the (0-based line index, indentation in bytes) of the non-blank lines whose
\* left-trimmed text satisfies the predicate
get_option_locations(s, predicate) ==
    LET ls == lines(s)
    IN  Flatten([k \in DOMAIN ls |->
            LET trimmed == trim_start(ls[k])
            IN  IF trimmed # << >> /\ option_predicate(predicate, trimmed)
                THEN <<<<k - 1, len(ls[k]) - len(trimmed)>>>>
                ELSE << >>])

get_most_frequent_offset_first_seen(locations) ==
    IF locations = << >> THEN {<< >>} ELSE {Some(locations[1][2])}

\* the values get_most_frequent_offset can return: max_by_key goes over a
\* HashMap, whose iteration order is not fixed, so among the offsets of the
\* highest count any one can come back
get_most_frequent_offset(locations) ==
    IF locations = << >> THEN {<< >>}
    ELSE LET count(o) == Cardinality({k \in DOMAIN locations : locations[k][2] = o})
             offsets == {locations[k][2] : k \in DOMAIN locations}
         IN  {Some(o) : o \in {x \in offsets : \A y \in offsets : count(y) <= count(x)}}

get_long_option_offset(s) ==
    get_most_frequent_offset(get_option_locations(s, "long"))

get_short_option_offset(s) ==
    get_most_frequent_offset(get_option_locations(s, "short"))

\* the results get_option_offsets can return
get_option_offsets(s) ==
    {IF short_offset = << >> /\ long_offset = << >> THEN << >>
     ELSE IF short_offset = << >> THEN <<long_offset[1]>>
     ELSE IF long_offset = << >> THEN <<short_offset[1]>>
     ELSE IF short_offset[1] = long_offset[1] THEN <<short_offset[1]>>
     ELSE <<short_offset[1], long_offset[1]>>
        : short_offset \in get_short_option_offset(s),
          long_offset \in get_long_option_offset(s)}

----------------------------------------------------------------------------
(* layout.rs: parse_usage *)

RECURSIVE usage_lines_until_blank(_, _)
usage_lines_until_blank(ls, first) ==
    IF ls = << >> THEN << >>
    ELSE LET l == Head(ls)
         IN  IF l = << >> /\ ~first THEN << >>
             ELSE <<l>> \o usage_lines_until_blank(Tail(ls), FALSE)

\* the inner loop of parse_usage over lines[i..]: the lines pushed, `first`
\* telling whether the head of ls is the first of them
RECURSIVE usage_lines(_, _)
usage_lines(ls, first) ==
    IF ls = << >> THEN << >>
    ELSE LET l == Head(ls)
         IN  IF (l = << >> \/ (~starts_with(l, <<" ">>) /\ ~contains(l, <<":">>))) /\ ~first
             THEN << >>
             ELSE <<l>> \o usage_lines(Tail(ls), FALSE)

Keywords == << <<"u", "s", "a", "g", "e">>, <<"s", "y", "n", "o", "p", "s", "i", "s">> >>

\* the scan of the whole text for a keyword followed, anywhere, by a ':'
RECURSIVE keyword_pos(_, _)
keyword_pos(lower, keywords) ==
    IF keywords = << >> THEN -1
    ELSE LET pos == find(lower, Head(keywords))
         IN  IF pos # -1 /\ contains(SubSeq(lower, pos + 1, Len(lower)), <<":">>)
             THEN pos
             ELSE keyword_pos(lower, Tail(keywords))

\* the loop over the lines of parse_usage
RECURSIVE usage_loop(_)
usage_loop(ls) ==
    IF ls = << >> THEN << >>
    ELSE LET lower == to_lowercase(Head(ls))
         IN  IF (\E k \in DOMAIN Keywords : contains(lower, Keywords[k]))
                /\ contains(lower, <<":">>)
                /\ join(usage_lines(ls, TRUE), <<"LF">>) # << >>
             THEN join(usage_lines(ls, TRUE), <<"LF">>)
             ELSE usage_loop(Tail(ls))

parse_usage(text) ==
    IF \A c \in {"u", "s", "U", "S"} : ~contains(text, <<c>>) THEN << >>
    ELSE IF keyword_pos(to_lowercase(text), Keywords) = -1 THEN << >>
    ELSE usage_loop(lines(text))

----------------------------------------------------------------------------
(* subcommand_parser.rs *)

Subcommand(c, d) == [cmd |-> c, desc |-> d]

is_valid_subcommand_name(name) ==
    IF starts_with(name, <<"-">>) \/ name = << >> THEN FALSE
    ELSE \A i \in DOMAIN name :
            is_alphanumeric(name[i]) \/ name[i] = "-" \/ name[i] = "_"

parse_line_pair_any_desc(first, second) ==
    LET trimmed_first == trim(first)
        words == split_whitespace(trimmed_first)
        desc == trim(second)
    IN  IF trimmed_first = << >> \/ starts_with(trimmed_first, <<"-">>) THEN << >>
        ELSE IF words = << >> THEN << >>
        ELSE IF ~is_valid_subcommand_name(words[1]) THEN << >>
        ELSE IF desc = << >> THEN << >>
        ELSE Some(Subcommand(words[1], split(desc, {"LF"})[1]))

\* Option<Subcommand>
parse_line_pair(first, second) ==
    LET trimmed_first == trim(first)
        words == split_whitespace(trimmed_first)
        desc == trim(second)
    IN  IF trimmed_first = << >> \/ starts_with(trimmed_first, <<"-">>) THEN << >>
        ELSE IF words = << >> THEN << >>
        ELSE IF ~is_valid_subcommand_name(words[1]) THEN << >>
        ELSE IF desc = << >> \/ starts_with(desc, <<"-">>) THEN << >>
        ELSE Some(Subcommand(words[1], split(desc, {"LF"})[1]))

parse_single_line_two_tokens(line) ==
    LET trimmed == trim(line)
        parts == split_whitespace(trimmed)
        desc == join(Tail(parts), <<" ">>)
    IN  IF trimmed = << >> \/ starts_with(trimmed, <<"-">>) THEN << >>
        ELSE IF Len(parts) < 2 THEN << >>
        ELSE IF ~is_valid_subcommand_name(parts[1]) THEN << >>
        ELSE IF desc = << >> THEN << >>
        ELSE Some(Subcommand(parts[1], desc))

\* Option<Subcommand>
parse_single_line(line) ==
    LET trimmed == trim(line)
        parts == split_whitespace(trimmed)
        desc == join(Tail(parts), <<" ">>)
    IN  IF trimmed = << >> \/ starts_with(trimmed, <<"-">>) THEN << >>
        ELSE IF Len(parts) < 3 THEN << >>
        ELSE IF ~is_valid_subcommand_name(parts[1]) THEN << >>
        ELSE IF desc = << >> THEN << >>
        ELSE Some(Subcommand(parts[1], desc))

\* Ord for Subcommand (derived): by cmd, then by desc
Subcommand_lt(a, b) ==
    \/ str_lt(a.cmd, b.cmd)
    \/ a.cmd = b.cmd /\ str_lt(a.desc, b.desc)

\* BTreeSet::into_iter: the elements in ascending order
RECURSIVE into_iter(_)
into_iter(set) ==
    IF set = {} THEN << >>
    ELSE LET least == CHOOSE x \in set : \A y \in set \ {x} : Subcommand_lt(x, y)
         IN  <<least>> \o into_iter(set \ {least})

\* the elements of an Option
elements(option) == {option[k] : k \in DOMAIN option}

SubcommandParser_parse(text) ==
    LET ls == lines(text)
        from_pairs == UNION {elements(parse_line_pair(ls[w], ls[w + 1]))
                                : w \in 1..(Len(ls) - 1)}
        from_lines == UNION {elements(parse_single_line(ls[w])) : w \in 1..Len(ls)}
    IN  into_iter(from_pairs \cup from_lines)

----------------------------------------------------------------------------
(* io_handler.rs *)

EightSpaces == <<" ", " ", " ", " ", " ", " ", " ", " ">>

normalize_text(text) ==
    LET has_tabs == contains(text, <<"TAB">>)
        has_double_spaces == contains(text, <<" ", " ">>)
        ls == lines(text)
        replaced(line_str) ==
            IF has_tabs /\ has_double_spaces
            THEN replace_double_space(replace_char(line_str, "TAB", EightSpaces))
            ELSE IF has_tabs THEN replace_char(line_str, "TAB", EightSpaces)
            ELSE replace_double_space(line_str)
    IN  IF ~has_tabs /\ ~has_double_spaces THEN text
        ELSE join([k \in DOMAIN ls |-> replaced(ls[k])], <<"LF">>)

----------------------------------------------------------------------------
(* postprocessor.rs: the helpers on text *)

\* the number of bytes skipped for a bullet whose first byte is b
bullet_skip_two(b) == 2

bullet_skip(b) == IF b = 226 THEN 4 ELSE 2

bullet_line_any_whitespace(line) ==
    LET trimmed == trim_start(line)
    IN  IF Len(trimmed) >= 2 /\ trimmed[1] \in {"*", "-", "BULLET"} /\ is_whitespace(trimmed[2])
        THEN SubSeq(line, 1, Len(line) - Len(trimmed)) \o trim_start(Tail(trimmed))
        ELSE line

\* what remove_bullets pushes for one line
bullet_line(line) ==
    LET trimmed == trim_start(line)
        prefix_len == len(line) - len(trimmed)
        bytes == as_bytes(trimmed)
        is_bullet ==
            IF bytes[1] = 42 \/ bytes[1] = 45 THEN is_ascii_whitespace(bytes[2])
            ELSE IF bytes[1] = 226 /\ Len(bytes) >= 4 /\ bytes[2] = 128 /\ bytes[3] = 162
            THEN is_ascii_whitespace(bytes[4])
            ELSE FALSE
    IN  IF Len(bytes) >= 2 /\ is_bullet
        THEN LET prefix == slice_to(line, prefix_len)
                 rest == slice_from(trimmed, bullet_skip(bytes[1]))
             IN  IF prefix = Panic \/ rest = Panic THEN Panic
                 ELSE prefix \o trim_start(rest)
        ELSE line

remove_bullets(text) ==
    LET ls == lines(text)
        pushed == [k \in DOMAIN ls |-> bullet_line(ls[k])]
    IN  IF \E k \in DOMAIN pushed : pushed[k] = Panic THEN Panic
        ELSE join(pushed, <<"LF">>)

unicode_spaces_to_ascii_no_en_check(text) ==
    LET has_nbsp == contains(text, <<"NBSP">>)
        has_em == contains(text, <<"EMSP">>)
    IN  IF ~has_nbsp /\ ~has_em THEN text
        ELSE Flatten([k \in DOMAIN text |->
                        IF text[k] = "NBSP" THEN <<" ">>
                        ELSE IF text[k] = "EMSP" THEN <<" ", " ", " ">>
                        ELSE IF text[k] = "ENSP" THEN <<" ", " ">>
                        ELSE <<text[k]>>])

unicode_spaces_to_ascii(text) ==
    LET has_nbsp == contains(text, <<"NBSP">>)
        has_em == contains(text, <<"EMSP">>)
        has_en == contains(text, <<"ENSP">>)
    IN  IF ~has_nbsp /\ ~has_em /\ ~has_en THEN text
        ELSE Flatten([k \in DOMAIN text |->
                        IF text[k] = "NBSP" THEN <<" ">>
                        ELSE IF text[k] = "EMSP" THEN <<" ", " ", " ">>
                        ELSE IF text[k] = "ENSP" THEN <<" ", " ">>
                        ELSE <<text[k]>>])

\* " ".repeat(spaces)
RECURSIVE repeat_space(_)
repeat_space(spaces) == IF spaces = 0 THEN << >> ELSE <<" ">> \o repeat_space(spaces - 1)

convert_tabs_to_spaces(text, spaces) ==
    IF ~contains(text, <<"TAB">>) THEN text
    ELSE replace_char(text, "TAB", repeat_space(spaces))

----------------------------------------------------------------------------
(* Values of the variables an operation does not use *)

Idle == << >>

LayoutIdle ==
    /\ blocks = Idle /\ tasks = Idle /\ results = Idle /\ order = Idle /\ workers = 0

LayoutUnchanged == UNCHANGED <<blocks, tasks, results, order, workers>>

LoopIdle == cursor = 0 /\ collected = Idle

LoopUnchanged == UNCHANGED <<cursor, collected>>

----------------------------------------------------------------------------
(* OptName::from_text applied to one token *)

MaxNameLen == 3

NameChars == {"-", "a", "=", "EACUTE"}

InitName ==
    /\ op = "from_text"
    /\ pc = "from_text"
    /\ input \in SeqsUpTo(NameChars, MaxNameLen)
    /\ out = Idle /\ cmd = Idle /\ fixes = 0
    /\ LayoutIdle
    /\ LoopIdle

FromText ==
    /\ pc = "from_text"
    /\ out' = from_text(input)
    /\ pc' = "from_text_done"
    /\ UNCHANGED <<op, input, cmd, fixes>>
    /\ LayoutUnchanged
    /\ LoopUnchanged

NextName == FromText

SpecName == InitName /\ [][NextName]_vars

\* C7: from_text(s) returns, for every s that begins with '-', exactly the one
\* type given by the precedence: "-" SingleDashAlone; "--" DoubleDashAlone;
\* "--" and longer than 2 LongType; a single '-' and length 2 ShortType; a
\* single '-' and longer than 2 OldType (length being str::len, the length in
\* bytes); the raw of the name is s; for every other s, the empty string
\* included, it returns None.
C7_Classification ==
    pc = "from_text_done" =>
        LET s == input
            dash == s # << >> /\ s[1] = "-"
            double == Len(s) >= 2 /\ s[1] = "-" /\ s[2] = "-"
            expected ==
                {t \in {"SingleDashAlone"} : s = <<"-">>}
                \cup {t \in {"DoubleDashAlone"} : s = <<"-", "-">>}
                \cup {t \in {"LongType"} : double /\ len(s) > 2}
                \cup {t \in {"ShortType"} : dash /\ ~double /\ len(s) = 2}
                \cup {t \in {"OldType"} : dash /\ ~double /\ len(s) > 2}
        IN  IF dash
            THEN /\ Cardinality(expected) = 1
                 /\ out # << >>
                 /\ out[1].opt_type \in expected
                 /\ out[1].raw = s
            ELSE out = << >>

\* a token that is a dash and one two-byte character has been classified
C7_Witness ==
    /\ pc = "from_text_done"
    /\ input = <<"-", "EACUTE">>
    /\ out # << >>
    /\ out[1].opt_type = "OldType"

----------------------------------------------------------------------------
(* postprocessor.rs: fix_command *)

\* the dedup key of an option: its raw names, in stored order, joined by '|',
\* and its argument
dedup_key(opt) ==
    <<join([i \in DOMAIN opt.names |-> opt.names[i].raw], <<"|">>), opt.argument>>

dedup_key_with_description(opt) ==
    <<join([i \in DOMAIN opt.names |-> opt.names[i].raw], <<"|">>), opt.argument,
      opt.description>>

RECURSIVE dedup_adjacent(_, _)
dedup_adjacent(options, result) ==
    IF options = << >> THEN result
    ELSE IF result # << >> /\ dedup_key(result[Len(result)]) = dedup_key(Head(options))
         THEN dedup_adjacent(Tail(options), result)
    ELSE dedup_adjacent(Tail(options), Append(result, Head(options)))

deduplicate_options_adjacent(options) == dedup_adjacent(options, << >>)

RECURSIVE dedup_by_full_value(_, _, _)
dedup_by_full_value(options, seen, result) ==
    IF options = << >> THEN result
    ELSE LET key == dedup_key_with_description(Head(options))
         IN  IF key \in seen THEN dedup_by_full_value(Tail(options), seen, result)
             ELSE dedup_by_full_value(Tail(options), seen \cup {key},
                                      Append(result, Head(options)))

deduplicate_options_by_value(options) == dedup_by_full_value(options, {}, << >>)

\* the loop of deduplicate_options
RECURSIVE dedup_loop(_, _, _)
dedup_loop(options, seen, result) ==
    IF options = << >> THEN result
    ELSE LET key == dedup_key(Head(options))
         IN  IF key \in seen THEN dedup_loop(Tail(options), seen, result)
             ELSE dedup_loop(Tail(options), seen \cup {key}, Append(result, Head(options)))

deduplicate_options(options) == dedup_loop(options, {}, << >>)

is_valid_option(opt) ==
    /\ opt.names # << >>
    /\ opt.names[1].raw # << >>
    /\ opt.description # << >>

filter_invalid_options_names_only(options) ==
    LET keep(opt) == opt.names # << >> /\ opt.names[1].raw # << >>
    IN  SelectSeq(options, keep)

filter_invalid_options(options) == SelectSeq(options, is_valid_option)

fix_command_root_only(c) ==
    [c EXCEPT !.options = filter_invalid_options(deduplicate_options(c.options))]

RECURSIVE fix_command_filter_first(_)
fix_command_filter_first(c) ==
    [c EXCEPT
        !.options = deduplicate_options(filter_invalid_options(c.options)),
        !.subcommands = [i \in DOMAIN c.subcommands |->
                            fix_command_filter_first(c.subcommands[i])]]

RECURSIVE fix_command_rebuilding(_)
fix_command_rebuilding(c) ==
    [Command_new(c.name) EXCEPT
        !.options = filter_invalid_options(deduplicate_options(c.options)),
        !.subcommands = [i \in DOMAIN c.subcommands |->
                            fix_command_rebuilding(c.subcommands[i])]]

RECURSIVE fix_command(_)
fix_command(c) ==
    [c EXCEPT
        !.options = filter_invalid_options(deduplicate_options(c.options)),
        !.subcommands = [i \in DOMAIN c.subcommands |-> fix_command(c.subcommands[i])]]

----------------------------------------------------------------------------
(* The Command trees fix_command is applied to: what build_command builds,   *)
(* and what load_command_from_json reads, where the options are arbitrary.   *)

MaxTreeSize == 5
MaxFixes == 2

DashV == <<"-", "v">>

OptPool ==
    { Opt(<<OptName_new(DashV, "ShortType")>>, << >>, <<"v", "e", "r", "b">>),
      Opt(<<OptName_new(DashV, "ShortType")>>, << >>, <<"o", "t", "h", "e", "r">>),
      Opt(<<OptName_new(DashV, "ShortType")>>, << >>, << >>),
      Opt(<<OptName_new(DashV, "OldType")>>, << >>, <<"o", "l", "d">>),
      Opt(<< >>, << >>, <<"x">>),
      Opt(<<OptName_new(<< >>, "LongType")>>, <<"F">>, <<"x">>) }

\* all sequences over S of length exactly n
RECURSIVE SeqsOfLen(_, _)
SeqsOfLen(S, n) ==
    IF n = 0 THEN {<< >>}
    ELSE {Append(q, x) : q \in SeqsOfLen(S, n - 1), x \in S}

\* The shape of a Command tree is the sequence of the shapes of its
\* subcommands; TreeShapes(n) are the shapes of n nodes, ForestShapes(m) the
\* subcommand lists of m nodes in all.
RECURSIVE TreeShapes(_)
RECURSIVE ForestShapes(_)
TreeShapes(n) == ForestShapes(n - 1)

ForestShapes(m) ==
    IF m = 0 THEN {<< >>}
    ELSE UNION { { <<t>> \o f : t \in TreeShapes(j), f \in ForestShapes(m - j) }
                 : j \in 1..m }

RECURSIVE ShapeSize(_)
ShapeSize(shape) ==
    1 + Len(Flatten([i \in DOMAIN shape |-> [j \in 1..ShapeSize(shape[i]) |-> j]]))

\* the ways to give each of n nodes a number of options, at most k in all
RECURSIVE OptionCounts(_, _)
OptionCounts(n, k) ==
    IF n = 0 THEN {<< >>}
    ELSE UNION { { <<c>> \o rest : rest \in OptionCounts(n - 1, k - c) } : c \in 0..k }

\* the ways to give each node an option list of its length
RECURSIVE OptionLists(_)
OptionLists(counts) ==
    IF counts = << >> THEN {<< >>}
    ELSE { <<q>> \o rest : q \in SeqsOfLen(OptPool, Head(counts)),
                           rest \in OptionLists(Tail(counts)) }

SubName(i) == <<Printable[65 + i]>>

\* the Command of a shape, named nm, whose nodes hold, in pre-order, the
\* option lists given
RECURSIVE BuildTree(_, _, _)
RECURSIVE BuildForest(_, _, _)
BuildTree(shape, nm, lists) ==
    [Command_new(nm) EXCEPT !.description = <<"d">>, !.usage = <<"u">>,
                            !.options = Head(lists),
                            !.subcommands = BuildForest(shape, Tail(lists), 1)]

BuildForest(shapes, lists, i) ==
    IF shapes = << >> THEN << >>
    ELSE LET n == ShapeSize(Head(shapes))
         IN  <<BuildTree(Head(shapes), SubName(i), SubSeq(lists, 1, n))>>
             \o BuildForest(Tail(shapes), SubSeq(lists, n + 1, Len(lists)), i + 1)

\* the Commands whose nodes and options together number at most size
Trees(size) ==
    UNION { UNION { UNION { { BuildTree(shape, <<"c", "m", "d">>, lists)
                              : lists \in OptionLists(counts) }
                            : counts \in OptionCounts(n, size - n) }
                    : shape \in TreeShapes(n) }
            : n \in 1..size }

InitFix ==
    /\ op = "fix_command"
    /\ pc = "loaded"
    /\ input \in Trees(MaxTreeSize)
    /\ cmd = input
    /\ out = Idle /\ fixes = 0
    /\ LayoutIdle
    /\ LoopIdle

\* main.rs:59, main.rs:153: cmd = Postprocessor::fix_command(cmd)
FixCommand ==
    /\ pc \in {"loaded", "fixed"}
    /\ fixes < MaxFixes
    /\ cmd' = fix_command(cmd)
    /\ fixes' = fixes + 1
    /\ pc' = "fixed"
    /\ UNCHANGED <<op, input, out>>
    /\ LayoutUnchanged
    /\ LoopUnchanged

NextFix == FixCommand

SpecFix == InitFix /\ [][NextFix]_vars

\* every Opt of every node of the tree is valid
RECURSIVE AllOptionsValid(_)
AllOptionsValid(c) ==
    /\ \A i \in DOMAIN c.options :
          /\ Len(c.options[i].names) >= 1
          /\ c.options[i].names[1].raw # << >>
          /\ c.options[i].description # << >>
    /\ \A i \in DOMAIN c.subcommands : AllOptionsValid(c.subcommands[i])

\* some node at depth d or deeper holds an Opt that is not valid
RECURSIVE InvalidAtDepth(_, _)
InvalidAtDepth(c, d) ==
    \/ d <= 0 /\ \E i \in DOMAIN c.options : ~is_valid_option(c.options[i])
    \/ \E i \in DOMAIN c.subcommands : InvalidAtDepth(c.subcommands[i], d - 1)

\* C1: after fix_command every Opt of every node of the tree, the root and
\* every descendant, has at least one name, a non-empty raw text in its first
\* name and a non-empty description.
C1_AllValidAtEveryDepth == fixes >= 1 => AllOptionsValid(cmd)

\* fix_command has run on a tree with an invalid Opt two levels below the root
C1_Witness == fixes = 1 /\ InvalidAtDepth(input, 2) /\ cmd # input

\* C2: fix_command is idempotent: applied to a tree it has already fixed, it
\* removes no option and changes no order at any node.
C2_Idempotent == [][fixes >= 1 => cmd' = cmd]_vars

\* fix_command has been applied twice to a tree its first application changed
C2_Witness == fixes = 2 /\ cmd # input

\* two options with identical names and identical argument
SameNamesAndArgument(a, b) == a.names = b.names /\ a.argument = b.argument

\* the options of q that have the names and the argument of o, in order
Alike(q, o) == LET same(x) == SameNamesAndArgument(x, o) IN SelectSeq(q, same)

\* positions i < j of q holding options with identical names and argument but
\* different descriptions
Collisions(q) ==
    {p \in (DOMAIN q) \X (DOMAIN q) :
        /\ p[1] < p[2]
        /\ SameNamesAndArgument(q[p[1]], q[p[2]])
        /\ q[p[1]].description # q[p[2]].description}

\* the position of the first option of q with the names and argument of o
FirstAlike(q, o) ==
    CHOOSE k \in DOMAIN q :
        /\ SameNamesAndArgument(q[k], o)
        /\ \A m \in 1..(k - 1) : ~SameNamesAndArgument(q[m], o)

\* an option before position k has the raw names of q[k], joined by '|', and
\* its argument
KeyTakenBefore(q, k) ==
    \E m \in 1..(k - 1) :
        /\ join([i \in DOMAIN q[m].names |-> q[m].names[i].raw], <<"|">>)
             = join([i \in DOMAIN q[k].names |-> q[k].names[i].raw], <<"|">>)
        /\ q[m].argument = q[k].argument

\* at every node: of the options that collide, exactly the first is left
RECURSIVE FirstAlwaysRemains(_, _)
FirstAlwaysRemains(before, after) ==
    /\ \A p \in Collisions(before.options) :
          LET o == before.options[p[1]]
              k == FirstAlike(before.options, o)
          IN  Alike(after.options, o) = <<before.options[k]>>
    /\ \A i \in DOMAIN before.subcommands :
          FirstAlwaysRemains(before.subcommands[i], after.subcommands[i])

\* at every node: of the options that collide, the first is left if it is
\* valid and its key was not taken before it, and none is left otherwise
RECURSIVE FirstRemainsIfKept(_, _)
FirstRemainsIfKept(before, after) ==
    /\ \A p \in Collisions(before.options) :
          LET o == before.options[p[1]]
              k == FirstAlike(before.options, o)
              first == before.options[k]
              kept == /\ Len(first.names) >= 1
                      /\ first.names[1].raw # << >>
                      /\ first.description # << >>
                      /\ ~KeyTakenBefore(before.options, k)
          IN  Alike(after.options, o) = IF kept THEN <<first>> ELSE << >>
    /\ \A i \in DOMAIN before.subcommands :
          FirstRemainsIfKept(before.subcommands[i], after.subcommands[i])

\* C3 as stated: two options of one command with identical names and identical
\* argument but different descriptions collapse into one, the first of them.
C3_FirstWins == fixes = 1 => FirstAlwaysRemains(input, cmd)

\* C3, amended: such options collapse into at most one; all but the first are
\* removed, and the first is left, with its own description, exactly when it
\* is valid and no earlier option has its dedup key.
C3_FirstWinsIfKept == fixes = 1 => FirstRemainsIfKept(input, cmd)

\* the root held two valid options alike but for the description, and the
\* first of them alone is left
C3_Witness ==
    /\ fixes = 1
    /\ \E p \in Collisions(input.options) :
          /\ is_valid_option(input.options[p[1]])
          /\ is_valid_option(input.options[p[2]])
          /\ Alike(cmd.options, input.options[p[1]]) = <<input.options[p[1]]>>

----------------------------------------------------------------------------
(* Layout::parse_blockwise and Layout::preprocess_blockwise on one text *)

MaxBlocks == 5
MaxWorkers == 2

ScenarioA ==
    << " ", " ", "-", "a", ",", " ", "-", "-", "a", "l", "l", " ", " ", " ",
       " ", " ", " ", " ", " ", "s", "h", "o", "w", " ", "a", "l", "l", "LF",
       "LF", " ", " ", " ", " ", " ", " ", "-", "-", "v", "e", "r", "b", "o",
       "s", "e", " ", " ", " ", " ", "b", "e", " ", "v", "e", "r", "b", "o",
       "s", "e", "LF" >>

\* paragraphs of help text; when two follow each other a blank line is put
\* between them, so that each dash-led paragraph is a block
Paragraphs ==
    << << "-", "a", ",", " ", "-", "-", "a", "l", "l", " ", " ", "s", "h", "o",
          "w", " ", "a", "l", "l" >>,
       << " ", " ", "-", "b", "LF", " ", " ", " ", " ", "s", "h", "o", "w",
          " ", "b" >>,
       << "-", "-", "c", "o", "l", "o", "r", "=", "W", "H", "E", "N" >>,
       << "-", "d", " ", "F", "I", "L", "E", ",", " ", "-", "-", "d", "i", "r",
          " ", "F", "I", "L", "E", "LF", " ", " ", "t", "h", "e", " ", "d",
          "i", "r", "e", "c", "t", "o", "r", "y" >>,
       << " ", " ", "-", "e" >>,
       << "-", "a", ",", " ", "-", "-", "a", "l", "l", " ", " ", "s", "h", "o",
          "w", " ", "a", "l", "l" >>,
       << "-", "-", "g", "a", "m", "m", "a", "LF", "n", "o", "t", " ", "a",
          "n", " ", "o", "p", "t", "i", "o", "n", ":", " ", "t", "e", "x", "t" >> >>

Intro == << "o", "p", "t", "i", "o", "n", "s", ":", " ", "a", "-", "b" >>

\* the text of n paragraphs, from the r-th on, after a line of introduction
HelpText(r, n) ==
    join(<<Intro>> \o [k \in 1..n |-> Paragraphs[((r + k - 2) % Len(Paragraphs)) + 1]],
         <<"LF", "LF">>)

\* texts without a line that starts with '-' after its indentation: without any
\* '-', and with '-' inside of lines only
PlainTexts ==
    { << "f", "o", "o", " ", "b", "a", "r", "LF", "LF", "b", "a", "z" >>,
      << "f", "o", "o", "-", "b", "a", "r", " ", "b", "a", "z" >>,
      << "a", "LF", " ", " ", "b", " ", "-", " ", "c", "LF", "LF", "d", "-",
         "e", "LF" >> }

LayoutInputs ==
    {ScenarioA} \cup PlainTexts \cup {HelpText(r, n) : r \in 1..3, n \in 0..MaxBlocks}

InitLayout ==
    /\ op \in {"parse_blockwise", "preprocess_blockwise"}
    /\ pc = "split"
    /\ input \in LayoutInputs
    /\ workers \in 1..MaxWorkers
    /\ out = Idle /\ cmd = Idle /\ fixes = 0
    /\ blocks = Idle /\ tasks = Idle /\ results = Idle /\ order = Idle
    /\ LoopIdle

\* layout.rs:13,17 and 37,40: the blocks, and the choice of the path
SplitBlocks ==
    /\ pc = "split"
    /\ blocks' = split_into_blocks_fast(input)
    /\ IF Len(blocks') > ParallelThreshold
       THEN /\ pc' = "parallel"
            /\ tasks' = [i \in DOMAIN blocks' |-> "todo"]
            /\ results' = [i \in DOMAIN blocks' |-> << >>]
       ELSE /\ pc' = "sequential"
            /\ UNCHANGED <<tasks, results>>
    /\ UNCHANGED <<op, input, out, cmd, fixes, order, workers>>
    /\ LoopUnchanged

\* layout.rs:28-31 and 51-54
SequentialPath ==
    /\ pc = "sequential"
    /\ out' = sequential_path(op, blocks)
    /\ pc' = "done"
    /\ UNCHANGED <<op, input, cmd, fixes>>
    /\ LayoutUnchanged
    /\ LoopUnchanged

\* layout.rs:19-23: a free worker takes up any block not yet taken
StartBlock(i) ==
    /\ pc = "parallel"
    /\ tasks[i] = "todo"
    /\ Cardinality({j \in DOMAIN tasks : tasks[j] = "running"}) < workers
    /\ tasks' = [tasks EXCEPT ![i] = "running"]
    /\ UNCHANGED <<op, pc, input, out, cmd, fixes, blocks, results, order, workers>>
    /\ LoopUnchanged

\* layout.rs:20-23: the parse of a block ends
FinishBlock(i) ==
    /\ pc = "parallel"
    /\ tasks[i] = "running"
    /\ tasks' = [tasks EXCEPT ![i] = "done"]
    /\ results' = [results EXCEPT ![i] = parse_block(op, blocks[i])]
    /\ order' = Append(order, i)
    /\ UNCHANGED <<op, pc, input, out, cmd, fixes, blocks, workers>>
    /\ LoopUnchanged

\* layout.rs:24-26: collect
Collect ==
    /\ pc = "parallel"
    /\ \A i \in DOMAIN tasks : tasks[i] = "done"
    /\ out' = collect(results, order)
    /\ pc' = "done"
    /\ UNCHANGED <<op, input, cmd, fixes>>
    /\ LayoutUnchanged
    /\ LoopUnchanged

NextLayout ==
    \/ SplitBlocks
    \/ SequentialPath
    \/ \E i \in DOMAIN tasks : StartBlock(i)
    \/ \E i \in DOMAIN tasks : FinishBlock(i)
    \/ Collect

SpecLayout == InitLayout /\ [][NextLayout]_vars

\* C4: for a text of more than 4 blocks the parallel path returns, whatever
\* the number of workers and the order in which the parses of the blocks
\* start and finish, the results of the blocks concatenated in the order of
\* the blocks: what the sequential path returns for that text.
C4_ParallelEqualsSequential ==
    (pc = "done" /\ Len(blocks) > 4) =>
        out = Flatten([i \in DOMAIN blocks |->
                          IF op = "parse_blockwise" THEN parse_line(blocks[i])
                          ELSE preprocess(blocks[i])])

\* the parallel path has returned a non-empty result although the parses of
\* the blocks did not finish in the order of the blocks
C4_Witness ==
    /\ pc = "done"
    /\ Len(blocks) > 4
    /\ order # [i \in DOMAIN blocks |-> i]
    /\ out # << >>

\* C6: parse_blockwise on Scenario A sees 2 blocks and returns exactly 2
\* options: names -a and --all, argument '', description 'show all'; and
\* name --verbose, argument '', description 'be verbose'.
C6_ScenarioA ==
    (pc = "done" /\ op = "parse_blockwise" /\ input = ScenarioA) =>
        /\ Len(blocks) = 2
        /\ Len(out) = 2
        /\ {out[1].names[i].raw : i \in DOMAIN out[1].names}
              = {<<"-", "a">>, <<"-", "-", "a", "l", "l">>}
        /\ out[1].argument = << >>
        /\ out[1].description = <<"s", "h", "o", "w", " ", "a", "l", "l">>
        /\ {out[2].names[i].raw : i \in DOMAIN out[2].names}
              = {<<"-", "-", "v", "e", "r", "b", "o", "s", "e">>}
        /\ out[2].argument = << >>
        /\ out[2].description = <<"b", "e", " ", "v", "e", "r", "b", "o", "s", "e">>

\* some line of the text starts with '-' after left-trimming
HasDashLedLine(text) ==
    \E k \in DOMAIN lines(text) : starts_with(trim_start(lines(text)[k]), <<"-">>)

\* C12: if no line of the text starts with '-' after left-trimming,
\* parse_blockwise returns an empty option list and preprocess_blockwise an
\* empty pair list, on the fast exit (no '-' anywhere in the text) and equally
\* when '-' occurs inside lines only: the loop over the lines, which the fast
\* exit skips, finds no block either.
C12_EmptyWithoutDashLedLine ==
    (pc = "done" /\ ~HasDashLedLine(input)) =>
        /\ out = << >>
        /\ blocks = << >>
        /\ split_blocks_loop(lines(input), << >>, << >>, FALSE) = << >>

\* a text with '-' inside of a line only went past the fast exit and gave
\* the empty result
C12_Witness ==
    /\ pc = "done"
    /\ contains(input, <<"-">>)
    /\ ~HasDashLedLine(input)
    /\ out = << >>

----------------------------------------------------------------------------
(* Layout::parse_usage applied to a text *)

MaxUsageLines == 3

ScenarioB ==
    << "u", "s", "a", "g", "e", ":", " ", "m", "y", "c", "m", "d", " ", "[",
       "O", "P", "T", "I", "O", "N", "S", "]", "LF", "LF", "d", "e", "s", "c",
       "r", "i", "p", "t", "i", "o", "n" >>

\* lines a help text is made of
UsageLinePool ==
    << << "u", "s", "a", "g", "e", ":", " ", "m", "y", "c", "m", "d", " ", "[",
          "O", "P", "T", "I", "O", "N", "S", "]" >>,
       << >>,
       << "d", "e", "s", "c", "r", "i", "p", "t", "i", "o", "n" >>,
       << " ", "-", "x" >>,
       << "a", ":", "b" >>,
       << ":", " ", "U", "s", "a", "g", "e" >>,
       << "S", "Y", "N", "O", "P", "S", "I", "S" >>,
       << "S", "y", "n", "o", "p", "s", "i", "s", ":" >> >>

\* the texts of up to MaxUsageLines lines of the pool
UsageInputs ==
    {join([k \in DOMAIN q |-> UsageLinePool[q[k]]], <<"LF">>)
        : q \in SeqsUpTo(DOMAIN UsageLinePool, MaxUsageLines)}

InitUsage ==
    /\ op = "parse_usage"
    /\ pc = "parse_usage"
    /\ input \in UsageInputs
    /\ out = Idle /\ cmd = Idle /\ fixes = 0
    /\ LayoutIdle
    /\ LoopIdle

ParseUsage ==
    /\ pc = "parse_usage"
    /\ out' = parse_usage(input)
    /\ pc' = "parse_usage_done"
    /\ UNCHANGED <<op, input, cmd, fixes>>
    /\ LayoutUnchanged
    /\ LoopUnchanged

NextUsage == ParseUsage

SpecUsage == InitUsage /\ [][NextUsage]_vars

\* a line that contains, ignoring letter case, a keyword and also a ':'
IsHeaderLine(l) ==
    /\ \/ contains(to_lowercase(l), <<"u", "s", "a", "g", "e">>)
       \/ contains(to_lowercase(l), <<"s", "y", "n", "o", "p", "s", "i", "s">>)
    /\ contains(l, <<":">>)

HeaderLines(text) == {k \in DOMAIN lines(text) : IsHeaderLine(lines(text)[k])}

FirstHeader(text) == CHOOSE k \in HeaderLines(text) : \A j \in HeaderLines(text) : k <= j

\* C8: parse_usage returns a non-empty result whenever some line of the text
\* has a keyword ('usage' or 'synopsis', in any letter case) and a ':'
\* anywhere in it, the result then begins with the first such line; it
\* returns the empty string only when no line has both.
C8_NonEmptyIffHeaderLine ==
    pc = "parse_usage_done" =>
        IF HeaderLines(input) # {}
        THEN out # << >> /\ starts_with(out, lines(input)[FirstHeader(input)])
        ELSE out = << >>

\* a line that the header's block goes on with
Absorbed(l) == l # << >> /\ (starts_with(l, <<" ">>) \/ contains(l, <<":">>))

\* the last line of the maximal run of absorbed lines that follows line h
RunEnd(ls, h) ==
    CHOOSE e \in h..Len(ls) :
        /\ \A k \in (h + 1)..e : Absorbed(ls[k])
        /\ e < Len(ls) => ~Absorbed(ls[e + 1])

\* C9: when parse_usage finds its header line, the result is that line and
\* the maximal run of directly following lines that are non-empty and start
\* with a space or contain ':', joined by newlines in their order and letter
\* case; the first line that breaks the run and all after it are left out.
\* 'usage: mycmd [OPTIONS]\n\ndescription' gives 'usage: mycmd [OPTIONS]'.
C9_HeaderAndMaximalRun ==
    (pc = "parse_usage_done" /\ out # << >>) =>
        /\ HeaderLines(input) # {}
        /\ LET ls == lines(input)
               h == FirstHeader(input)
           IN  out = join(SubSeq(ls, h, RunEnd(ls, h)), <<"LF">>)
        /\ input = ScenarioB => out = lines(ScenarioB)[1]

\* a header line in the middle of the text has been found, lines after it
\* were taken up and a later line was left out
C9_Witness ==
    /\ pc = "parse_usage_done"
    /\ out # << >>
    /\ FirstHeader(input) > 1
    /\ Len(lines(out)) = 2
    /\ Len(lines(input)) = 3
    /\ lines(input)[3] # << >>

----------------------------------------------------------------------------
(* SubcommandParser::parse applied to a text *)

MaxSubLines == 3

ScenarioC ==
    << "r", "u", "n", " ", " ", " ", " ", " ", " ", " ", "R", "u", "n", " ",
       "a", " ", "c", "o", "m", "m", "a", "n", "d", "LF", "b", "u", "i", "l",
       "d", " ", " ", " ", " ", " ", "B", "u", "i", "l", "d", " ", "a", " ",
       "p", "r", "o", "j", "e", "c", "t" >>

SubLinePool ==
    << << "r", "u", "n", " ", " ", " ", " ", " ", " ", " ", "R", "u", "n", " ",
          "a", " ", "c", "o", "m", "m", "a", "n", "d" >>,
       << "b", "u", "i", "l", "d", " ", " ", " ", " ", " ", "B", "u", "i", "l",
          "d", " ", "a", " ", "p", "r", "o", "j", "e", "c", "t" >>,
       << >>,
       << " ", " ", "-", "v", " ", " ", "v", "e", "r", "b", "o", "s", "e" >>,
       << "s", "u", "b", "-", "c", "m", "d", " ", "x" >>,
       << "a", ".", "b", " ", "c", " ", "d" >>,
       << " ", " ", "t", "e", "s", "t" >>,
       << "-", "x" >> >>

\* the texts of up to MaxSubLines lines of the pool
SubInputs ==
    {join([k \in DOMAIN q |-> SubLinePool[q[k]]], <<"LF">>)
        : q \in SeqsUpTo(DOMAIN SubLinePool, MaxSubLines)}

InitSub ==
    /\ op = "SubcommandParser::parse"
    /\ pc = "parse"
    /\ input \in SubInputs
    /\ out = Idle /\ cmd = Idle /\ fixes = 0
    /\ LayoutIdle
    /\ LoopIdle

Parse ==
    /\ pc = "parse"
    /\ out' = SubcommandParser_parse(input)
    /\ pc' = "parse_done"
    /\ UNCHANGED <<op, input, cmd, fixes>>
    /\ LayoutUnchanged
    /\ LoopUnchanged

NextSub == Parse

SpecSub == InitSub /\ [][NextSub]_vars

NonBlank(l) == \E k \in DOMAIN l : ~is_whitespace(l[k])

Tokens(l) == split_whitespace(l)

ValidToken(t) ==
    /\ t # << >>
    /\ t[1] # "-"
    /\ \A k \in DOMAIN t : is_alphanumeric(t[k]) \/ t[k] \in {"-", "_"}

\* heuristic (1): the entries from the pairs of consecutive lines
PairEntries(ls) ==
    {[cmd |-> Tokens(ls[w])[1], desc |-> trim(ls[w + 1])] :
        w \in {v \in 1..(Len(ls) - 1) :
                  /\ NonBlank(ls[v])
                  /\ ls[v][1] # "-"
                  /\ ValidToken(Tokens(ls[v])[1])
                  /\ NonBlank(ls[v + 1])
                  /\ trim(ls[v + 1])[1] # "-"}}

\* heuristic (2): the entries from the single lines
LineEntries(ls) ==
    {[cmd |-> Tokens(ls[w])[1], desc |-> join(Tail(Tokens(ls[w])), <<" ">>)] :
        w \in {v \in 1..Len(ls) :
                  /\ NonBlank(ls[v])
                  /\ ls[v][1] # "-"
                  /\ Len(Tokens(ls[v])) >= 3
                  /\ ValidToken(Tokens(ls[v])[1])}}

\* (cmd, desc) of a comes strictly before (cmd, desc) of b
Ascending(a, b) ==
    \/ str_lt(a.cmd, b.cmd)
    \/ a.cmd = b.cmd /\ str_lt(a.desc, b.desc)

Entry(c, d) == [cmd |-> c, desc |-> d]

\* C10: SubcommandParser::parse returns exactly the union of (1) for every
\* pair of consecutive lines (a, b) with a non-blank, not starting with '-',
\* with a valid first token, and trim(b) non-blank and not starting with '-',
\* the entry {first token of a, trim(b)}, and (2) for every non-blank line not
\* starting with '-' with at least 3 tokens and a valid first token, the entry
\* {token 0, the other tokens joined by one space}; listed in strictly
\* ascending (cmd, desc) order.  'run       Run a command\nbuild     Build a
\* project' gives a result with {run, 'Run a command'} and {build, 'Build a
\* project'}.
C10_UnionOfHeuristics ==
    pc = "parse_done" =>
        /\ {out[k] : k \in DOMAIN out}
              = PairEntries(lines(input)) \cup LineEntries(lines(input))
        /\ \A k \in 1..(Len(out) - 1) : Ascending(out[k], out[k + 1])
        /\ input = ScenarioC =>
              /\ \E k \in DOMAIN out :
                    out[k] = Entry(<<"r", "u", "n">>,
                                   <<"R", "u", "n", " ", "a", " ", "c", "o", "m", "m", "a", "n", "d">>)
              /\ \E k \in DOMAIN out :
                    out[k] = Entry(<<"b", "u", "i", "l", "d">>,
                                   <<"B", "u", "i", "l", "d", " ", "a", " ", "p", "r", "o", "j", "e", "c", "t">>)

\* the two lines of the example have been parsed: both heuristics gave
\* entries, three in all
C10_Witness ==
    /\ pc = "parse_done"
    /\ input = ScenarioC
    /\ Len(out) = 3
    /\ PairEntries(lines(input)) # {}
    /\ LineEntries(lines(input)) # {}

\* the text has a pair of consecutive lines of the shape of a subcommand: the
\* first non-blank, not starting with '-', with a valid first token, the second
\* non-blank after trimming and not starting with '-'
HasSubcommandPair(ls) ==
    \E v \in 1..(Len(ls) - 1) :
        /\ NonBlank(ls[v])
        /\ ls[v][1] # "-"
        /\ ValidToken(Tokens(ls[v])[1])
        /\ NonBlank(ls[v + 1])
        /\ trim(ls[v + 1])[1] # "-"

\* the text has a line of the shape of a subcommand with its description: not
\* blank, not starting with '-', of at least 3 tokens, the first one valid
HasSubcommandLine(ls) ==
    \E v \in 1..Len(ls) :
        /\ NonBlank(ls[v])
        /\ ls[v][1] # "-"
        /\ Len(Tokens(ls[v])) >= 3
        /\ ValidToken(Tokens(ls[v])[1])

\* C11 as stated: a text without a subcommand-shaped pair of consecutive
\* lines, and so every text of a single line, gives an empty subcommand list.
C11_EmptyWithoutPair ==
    pc = "parse_done" =>
        /\ ~HasSubcommandPair(lines(input)) => out = << >>
        /\ Len(lines(input)) = 1 => out = << >>

\* C11, amended: SubcommandParser::parse returns an empty subcommand list
\* exactly when the text has neither a subcommand-shaped pair of consecutive
\* lines nor a single line of at least 3 tokens with a valid first token; a
\* text of a single line gives at most the one entry of that line.
C11_EmptyWithoutPairOrLine ==
    pc = "parse_done" =>
        /\ out = << >> <=>
              (~HasSubcommandPair(lines(input)) /\ ~HasSubcommandLine(lines(input)))
        /\ Len(lines(input)) = 1 =>
              out = IF HasSubcommandLine(lines(input))
                    THEN <<Entry(Tokens(input)[1], join(Tail(Tokens(input)), <<" ">>))>>
                    ELSE << >>

\* a text of two lines with words in them, neither a pair nor a line of the
\* shape of a subcommand, has given the empty list
C11_Witness ==
    /\ pc = "parse_done"
    /\ Len(lines(input)) = 2
    /\ \A k \in 1..2 : NonBlank(lines(input)[k])
    /\ ~HasSubcommandPair(lines(input))
    /\ ~HasSubcommandLine(lines(input))
    /\ out = << >>

----------------------------------------------------------------------------
(* The extraction core: each of its functions called on a text, and
   fix_command called on a Command tree *)

MaxCoreLines == 2
MaxCoreTreeSize == 3

CoreLinePool ==
    << << >>,
       << "-" >>,
       << "-", "-" >>,
       << "-", "-", "-" >>,
       << ",", "/", "|" >>,
       << "-", " ", "x" >>,
       << " ", " ", "BULLET", " ", "x" >>,
       << "BULLET" >>,
       << "*", "TAB", "x", " ", " ", "y" >>,
       << "-", "a", ",", " ", "-", "-", "a", "l", "l", " ", " ", "s", "h", "o",
          "w", " ", "a", "l", "l" >>,
       << "u", "s", "a", "g", "e", ":", " ", "s" >>,
       << "NBSP", "-", " ", "x" >>,
       << "r", "u", "n", " ", "a", " ", "b" >> >>

\* the texts of up to MaxCoreLines lines of the pool
CoreInputs ==
    {join([k \in DOMAIN q |-> CoreLinePool[q[k]]], <<"LF">>)
        : q \in SeqsUpTo(DOMAIN CoreLinePool, MaxCoreLines)}

TextFunctions ==
    {"normalize_text", "remove_bullets", "unicode_spaces_to_ascii", "preprocess",
     "parse_line", "parse_blockwise", "parse_usage", "SubcommandParser::parse"}

InitCore ==
    /\ \/ op \in TextFunctions /\ input \in CoreInputs
       \/ op = "fix_command" /\ input \in Trees(MaxCoreTreeSize)
    /\ pc = "called"
    /\ out = Idle /\ cmd = Idle /\ fixes = 0
    /\ LayoutIdle
    /\ LoopIdle

\* the call of a function that gives a String ends: it returned value, or it
\* panicked
ReturnsText(name, value) ==
    /\ pc = "called"
    /\ op = name
    /\ out' = value
    /\ pc' = IF value = Panic THEN "panicked" ELSE "returned"
    /\ UNCHANGED <<op, input, cmd, fixes>>
    /\ LayoutUnchanged
    /\ LoopUnchanged

\* the call of a function that gives a Vec or a Command returns value
Returns(name, value) ==
    /\ pc = "called"
    /\ op = name
    /\ out' = value
    /\ pc' = "returned"
    /\ UNCHANGED <<op, input, cmd, fixes>>
    /\ LayoutUnchanged
    /\ LoopUnchanged

CallNormalizeText == ReturnsText("normalize_text", normalize_text(input))

CallRemoveBullets == ReturnsText("remove_bullets", remove_bullets(input))

CallUnicodeSpacesToAscii ==
    ReturnsText("unicode_spaces_to_ascii", unicode_spaces_to_ascii(input))

CallParseUsage == ReturnsText("parse_usage", parse_usage(input))

CallParseBlockwise == Returns("parse_blockwise", parse_blockwise(input))

CallSubcommandParse == Returns("SubcommandParser::parse", SubcommandParser_parse(input))

CallFixCommand == Returns("fix_command", fix_command(input))

\* parser.rs:37-90: one turn of the while loop of preprocess, run by
\* preprocess itself or by parse_line
PreprocessTurn ==
    /\ pc = "called"
    /\ op \in {"preprocess", "parse_line"}
    /\ cursor < Len(lines(input))
    /\ cursor' = preprocess_step(lines(input), cursor, collected)[1]
    /\ collected' = preprocess_step(lines(input), cursor, collected)[2]
    /\ UNCHANGED <<op, pc, input, out, cmd, fixes>>
    /\ LayoutUnchanged

\* parser.rs:37,92: the loop is left, preprocess returns its result
PreprocessReturn ==
    /\ pc = "called"
    /\ op = "preprocess"
    /\ ~(cursor < Len(lines(input)))
    /\ out' = collected
    /\ pc' = "returned"
    /\ UNCHANGED <<op, input, cmd, fixes>>
    /\ LayoutUnchanged
    /\ LoopUnchanged

\* parser.rs:18-29: preprocess has returned, parse_line goes over the pairs
ParseLineReturn ==
    /\ pc = "called"
    /\ op = "parse_line"
    /\ ~(cursor < Len(lines(input)))
    /\ out' = parse_line_loop(collected, {}, << >>)
    /\ pc' = "returned"
    /\ UNCHANGED <<op, input, cmd, fixes>>
    /\ LayoutUnchanged
    /\ LoopUnchanged

NextCore ==
    \/ CallNormalizeText
    \/ CallRemoveBullets
    \/ CallUnicodeSpacesToAscii
    \/ CallParseUsage
    \/ CallParseBlockwise
    \/ CallSubcommandParse
    \/ CallFixCommand
    \/ PreprocessTurn
    \/ PreprocessReturn
    \/ ParseLineReturn

\* a call that is under way goes on: weak fairness of NextCore, where the
\* condition that a step of NextCore can be taken is written out as
\* pc = "called" (every action of NextCore has that guard, and in every state
\* with pc = "called" the guard of one of them holds)
CoreGoesOn == []<>(pc # "called") \/ []<><<NextCore>>_vars

SpecCore == InitCore /\ [][NextCore]_vars /\ CoreGoesOn

\* C5: the extraction core is total: on every text (empty, without a newline,
\* of blank lines only, of dashes or separators only) each of normalize_text,
\* remove_bullets, unicode_spaces_to_ascii, preprocess, parse_line,
\* parse_blockwise, parse_usage and SubcommandParser::parse ends and returns
\* a value, and so does fix_command on every finite Command tree; no call
\* ends in a failure.
C5_Total == [](pc # "panicked") /\ <>(pc = "returned")

\* remove_bullets has returned from a text with an indented bullet, going
\* over its three bytes and the space after it
C5_Witness ==
    /\ pc = "returned"
    /\ op = "remove_bullets"
    /\ contains(input, <<"BULLET", " ">>)
    /\ ~contains(out, <<"BULLET", " ">>)

----------------------------------------------------------------------------
(* The functions that build Opt values, called on an option text *)

MaxOptTokens == 3

OptTokenPool ==
    << << "-", "v" >>,
       << "-", "-", "v", "e", "r", "b", "o", "s", "e" >>,
       << "-", "v", "," >>,
       << "F", "I", "L", "E" >>,
       << "-" >>,
       << "-", "-" >>,
       << "-", "a", "b", "c" >>,
       << "a", ",", "-", "b" >>,
       << "-", "b", "|", "-", "a" >>,
       << "/" >> >>

\* the texts of up to MaxOptTokens tokens of the pool, a space between them
OptTexts ==
    {join([k \in DOMAIN q |-> OptTokenPool[q[k]]], <<" ">>)
        : q \in SeqsUpTo(DOMAIN OptTokenPool, MaxOptTokens)}

InitOpt ==
    /\ op \in {"parse_with_opt_part", "parse_line", "parse_blockwise"}
    /\ input \in OptTexts
    /\ pc = "called"
    /\ out = Idle /\ cmd = Idle /\ fixes = 0
    /\ LayoutIdle
    /\ LoopIdle

\* parser.rs:95: parse_with_opt_part(input, "d")
CallParseWithOptPart ==
    Returns("parse_with_opt_part", parse_with_opt_part(input, <<"d">>))

NextOpt ==
    \/ CallParseWithOptPart
    \/ CallParseBlockwise
    \/ PreprocessTurn
    \/ ParseLineReturn

SpecOpt == InitOpt /\ [][NextOpt]_vars

\* the pieces of a text between whitespace and the separators , / |
DashTokens(text) ==
    LET ts == split(text, {c \in Alphabet : is_whitespace(c)} \cup {",", "/", "|"})
    IN  {ts[k] : k \in {j \in DOMAIN ts : ts[j] # << >> /\ ts[j][1] = "-"}}

\* (raw, type) of a comes strictly before (raw, type) of b
NameBefore(a, b) ==
    \/ str_lt(a.raw, b.raw)
    \/ a.raw = b.raw /\ type_rank(a.opt_type) < type_rank(b.opt_type)

\* C13: every Opt returned by parse_line, parse_with_opt_part or
\* parse_blockwise has at least one name, and its names are in strictly
\* ascending order by (raw, type), so none occurs twice; an option text
\* with no token (between whitespace and the separators , / |) that starts
\* with '-' yields no Opt at all.
C13_NamesSortedAndDistinct ==
    pc = "returned" =>
        /\ \A k \in DOMAIN out :
              /\ Len(out[k].names) >= 1
              /\ \A n \in 1..(Len(out[k].names) - 1) :
                    NameBefore(out[k].names[n], out[k].names[n + 1])
        /\ DashTokens(input) = {} => out = << >>

\* an Opt has been built from a text that names one option twice and another
\* one after it: the names are in order, each once
C13_Witness ==
    /\ pc = "returned"
    /\ op = "parse_with_opt_part"
    /\ input = <<"-", "v", ",", " ", "-", "v", " ", "-", "-">>
    /\ Len(out) = 1
    /\ Len(out[1].names) = 2

----------------------------------------------------------------------------
(* IoHandler::normalize_text called on a text *)

MaxNormLen == 5

NormChars == {"a", " ", "TAB", "LF"}

InitNorm ==
    /\ op = "normalize_text"
    /\ input \in SeqsUpTo(NormChars, MaxNormLen)
    /\ pc = "called"
    /\ out = Idle /\ cmd = Idle /\ fixes = 0
    /\ LayoutIdle
    /\ LoopIdle

NextNorm == CallNormalizeText

SpecNorm == InitNorm /\ [][NextNorm]_vars

\* each tab replaced by 8 spaces, then each run of two consecutive spaces
\* collapsed into one
Reference(text) == replace_double_space(replace_char(text, "TAB", EightSpaces))

\* what the lines of the text give when each goes through both replacements
\* and they are joined again
FullPath(text) ==
    join([k \in DOMAIN lines(text) |-> Reference(lines(text)[k])], <<"LF">>)

\* C14: normalize_text gives, for every input, the result of one fixed
\* transformation (each tab replaced by 8 spaces, each run of two spaces
\* collapsed into one) whichever branch runs: a tab is expanded in the same way
\* with and without a two-space run in the text, a text that takes the fast
\* path agrees with what the full path would return for it, and the output
\* never contains a tab.
C14_OneTransformation ==
    pc = "returned" =>
        /\ out = Reference(input)
        /\ (~contains(input, <<"TAB">>) /\ ~contains(input, <<" ", " ">>)) =>
              out = FullPath(input)
        /\ ~contains(out, <<"TAB">>)

----------------------------------------------------------------------------
(* Postprocessor::unicode_spaces_to_ascii called on a text, and
   convert_tabs_to_spaces(_, 4) on its result *)

MaxUniLen == 4

UniChars == {"a", " ", "TAB", "LF", "NBSP", "ENSP", "EMSP", "EACUTE"}

ScenarioD ==
    << "NBSP", "f", "o", "o", "ENSP", "b", "a", "r", "EMSP", "b", "a", "z",
       "TAB", "e", "n", "d" >>

InitUni ==
    /\ op = "unicode_spaces_to_ascii"
    /\ input \in SeqsUpTo(UniChars, MaxUniLen) \cup {ScenarioD}
    /\ pc = "called"
    /\ out = Idle /\ cmd = Idle /\ fixes = 0
    /\ LayoutIdle
    /\ LoopIdle

\* postprocessor.rs:167: convert_tabs_to_spaces(&ascii, 4)
ConvertTabs ==
    /\ pc = "returned"
    /\ op = "unicode_spaces_to_ascii"
    /\ out' = convert_tabs_to_spaces(out, 4)
    /\ pc' = "tabs_converted"
    /\ UNCHANGED <<op, input, cmd, fixes>>
    /\ LayoutUnchanged
    /\ LoopUnchanged

NextUni == CallUnicodeSpacesToAscii \/ ConvertTabs

SpecUni == InitUni /\ [][NextUni]_vars

\* what a character becomes
AsciiFor(c) ==
    CASE c = "NBSP" -> <<" ">>
      [] c = "ENSP" -> <<" ", " ">>
      [] c = "EMSP" -> <<" ", " ", " ">>
      [] OTHER -> <<c>>

\* the text with each of its characters replaced, from the last one back
RECURSIVE AsciiText(_)
AsciiText(text) ==
    IF text = << >> THEN << >>
    ELSE AsciiText(SubSeq(text, 1, Len(text) - 1)) \o AsciiFor(text[Len(text)])

\* C15: unicode_spaces_to_ascii replaces every U+00A0 by one space, every
\* U+2002 by two and every U+2003 by three spaces, and leaves every other
\* character, tabs and newlines included, unchanged and in place; a text
\* without the three is returned unchanged.  For
\* '\u{00A0}foo\u{2002}bar\u{2003}baz\tend', convert_tabs_to_spaces(_, 4) of
\* the result is ' foo  bar   baz    end'.
C15_UnicodeSpaces ==
    /\ pc = "returned" =>
          /\ out = AsciiText(input)
          /\ (\A k \in DOMAIN input : input[k] \notin {"NBSP", "ENSP", "EMSP"}) => out = input
    /\ (pc = "tabs_converted" /\ input = ScenarioD) =>
          out = << " ", "f", "o", "o", " ", " ", "b", "a", "r", " ", " ", " ",
                 "b", "a", "z", " ", " ", " ", " ", "e", "n", "d" >>

\* the example has gone through both functions
C15_Witness ==
    /\ pc = "tabs_converted"
    /\ input = ScenarioD
    /\ Len(out) = 22
    /\ ~contains(out, <<"TAB">>)

----------------------------------------------------------------------------
(* Postprocessor::remove_bullets called on a text *)

MaxBulletLen == 5

BulletChars == {"*", "-", "BULLET", " ", "NBSP", "x", "LF"}

InitBullets ==
    /\ op = "remove_bullets"
    /\ input \in SeqsUpTo(BulletChars, MaxBulletLen)
    /\ pc = "called"
    /\ out = Idle /\ cmd = Idle /\ fixes = 0
    /\ LayoutIdle
    /\ LoopIdle

NextBullets == CallRemoveBullets

SpecBullets == InitBullets /\ [][NextBullets]_vars

\* the line without its one leading bullet: the indentation, then the content
\* behind the bullet and the whitespace that follows it
WithoutBullet(l) ==
    LET content == trim_start(l)
        indentation == SubSeq(l, 1, Len(l) - Len(content))
    IN  IF /\ Len(content) >= 2
           /\ content[1] \in {"*", "-", "BULLET"}
           /\ is_whitespace(content[2])
        THEN indentation \o trim_start(Tail(content))
        ELSE l

\* C16: remove_bullets handles each line on its own: a line whose content
\* after its indentation begins with '*', '-' or U+2022 followed by
\* whitespace gives the indentation and the content behind that one bullet
\* and the whitespace after it; every other line is output verbatim.  So
\* '* * x' becomes '* x', and a bullet further into the line stays.
C16_OneLeadingBullet ==
    pc = "returned" =>
        out = join([k \in DOMAIN lines(input) |-> WithoutBullet(lines(input)[k])], <<"LF">>)

----------------------------------------------------------------------------
(* json_gen.rs *)

\* json!({ "names": .., "argument": .., "description": .. }) of an option
option_to_json(opt) ==
    [names |-> [n \in DOMAIN opt.names |-> opt.names[n].raw],
     argument |-> opt.argument,
     description |-> opt.description]

\* a JSON object is a record; a key that is not set is not in its domain
RECURSIVE command_to_json_nested(_)
command_to_json_nested(c) ==
    LET obj == [name |-> c.name,
                description |-> c.description,
                usage |-> c.usage,
                options |-> [k \in DOMAIN c.options |-> option_to_json(c.options[k])]]
        with_subcommands ==
            IF c.subcommands # << >>
            THEN obj @@ [subcommands |->
                            [k \in DOMAIN c.subcommands |->
                                command_to_json_nested(c.subcommands[k])]]
            ELSE obj
    IN  IF c.version # << >>
        THEN with_subcommands @@ [version |-> c.version]
        ELSE with_subcommands

command_to_json(c) ==
    LET obj == [name |-> c.name,
                description |-> c.description,
                usage |-> c.usage,
                options |-> [k \in DOMAIN c.options |-> option_to_json(c.options[k])]]
        with_subcommands ==
            IF c.subcommands # << >>
            THEN obj @@ [subcommands |->
                            [k \in DOMAIN c.subcommands |->
                                [name |-> c.subcommands[k].name,
                                 description |-> c.subcommands[k].description]]]
            ELSE obj
    IN  IF c.version # << >>
        THEN with_subcommands @@ [version |-> c.version]
        ELSE with_subcommands

\* JsonGenerator::generate: to_string_pretty writes the value of
\* command_to_json out as JSON text, key by key and string by string; the
\* model keeps the value that the text denotes
generate(c) == command_to_json(c)

----------------------------------------------------------------------------
(* JsonGenerator::generate called on a Command tree *)

MaxJsonTreeSize == 4

Digits == <<"1", "2", "3", "4", "5", "6", "7", "8", "9">>

\* the tree with every node given a name, description, usage and version of
\* its own, made of the path of the node from the root
RECURSIVE Relabel(_, _)
Relabel(c, path) ==
    [name |-> <<"n">> \o path,
     description |-> <<"d">> \o path,
     usage |-> <<"u">> \o path,
     version |-> <<"v">> \o path,
     options |-> c.options,
     subcommands |-> [k \in DOMAIN c.subcommands |->
                         Relabel(c.subcommands[k], Append(path, Digits[k]))]]

\* the relabelled trees, with and without a version at the root
JsonInputs ==
    {Relabel(t, << >>) : t \in Trees(MaxJsonTreeSize)}
        \cup {[Relabel(t, << >>) EXCEPT !.version = << >>] : t \in Trees(MaxJsonTreeSize)}

InitJson ==
    /\ op = "generate"
    /\ input \in JsonInputs
    /\ pc = "called"
    /\ out = Idle /\ cmd = Idle /\ fixes = 0
    /\ LayoutIdle
    /\ LoopIdle

\* main.rs:68
CallGenerate == Returns("generate", generate(input))

NextJson == CallGenerate

SpecJson == InitJson /\ [][NextJson]_vars

\* name, description, usage and version of a node and of all nodes below it
RECURSIVE NodeStrings(_)
NodeStrings(c) ==
    {c.name, c.description, c.usage, c.version}
        \cup UNION {NodeStrings(c.subcommands[k]) : k \in DOMAIN c.subcommands}

\* what of the tree must not show: usage and version of the subcommands, and
\* every string of the nodes below them
HiddenStrings(c) ==
    UNION {{c.subcommands[k].usage, c.subcommands[k].version}
              \cup UNION {NodeStrings(c.subcommands[k].subcommands[j])
                             : j \in DOMAIN c.subcommands[k].subcommands}
           : k \in DOMAIN c.subcommands}

\* the strings of the output outside of its options
ShownStrings(j) ==
    {j[k] : k \in DOMAIN j \ {"options", "subcommands"}}
        \cup (IF "subcommands" \in DOMAIN j
              THEN UNION {{j.subcommands[i][k] : k \in DOMAIN j.subcommands[i]}
                             : i \in DOMAIN j.subcommands}
              ELSE {})

\* C17: generate renders every option as the list of its raw names in stored
\* order with its argument and description, and every direct subcommand as
\* an object of name and description only: options, usage, version and
\* children of a subcommand never appear, however deep the tree is.
C17_FlatSubcommands ==
    pc = "returned" =>
        /\ DOMAIN out = {"name", "description", "usage", "options"}
                           \cup (IF input.subcommands # << >> THEN {"subcommands"} ELSE {})
                           \cup (IF input.version # << >> THEN {"version"} ELSE {})
        /\ Len(out.options) = Len(input.options)
        /\ \A k \in DOMAIN out.options :
              /\ DOMAIN out.options[k] = {"names", "argument", "description"}
              /\ Len(out.options[k].names) = Len(input.options[k].names)
              /\ \A n \in DOMAIN out.options[k].names :
                    out.options[k].names[n] = input.options[k].names[n].raw
              /\ out.options[k].argument = input.options[k].argument
              /\ out.options[k].description = input.options[k].description
        /\ input.subcommands # << >> =>
              /\ Len(out.subcommands) = Len(input.subcommands)
              /\ \A k \in DOMAIN out.subcommands :
                    /\ DOMAIN out.subcommands[k] = {"name", "description"}
                    /\ out.subcommands[k].name = input.subcommands[k].name
                    /\ out.subcommands[k].description = input.subcommands[k].description
        /\ ShownStrings(out) \cap HiddenStrings(input) = {}

\* a tree three levels deep, with an option in a subcommand, has been
\* rendered
C17_Witness ==
    /\ pc = "returned"
    /\ op = "generate"
    /\ \E k \in DOMAIN input.subcommands :
          /\ input.subcommands[k].subcommands # << >>
          /\ input.subcommands[k].options # << >>
    /\ "subcommands" \in DOMAIN out

----------------------------------------------------------------------------
(* Parser::preprocess called on a block of lines, its loop turn by turn *)

MaxPreLines == 3

PreLinePool ==
    << << " ", " ", "-", "a", ",", " ", "-", "-", "a", "l", "l", " ", " ", "s",
          "h", "o", "w", " ", "a", "l", "l" >>,
       << " ", " ", "-", "b" >>,
       << " ", " ", " ", " ", "s", "h", "o", "w", " ", "b" >>,
       << >>,
       << "-", "-", "c", "o", "l", "o", "r", "=", "W", "H", "E", "N" >>,
       << "-", "d", " ", "F", "I", "L", "E", ",", " ", "-", "-", "d", "i", "r",
          " ", "F", "I", "L", "E" >>,
       << "t", "e", "x", "t", " ", "-", " ", "m", "o", "r", "e" >>,
       << "-", "-", "v", "e", "r", "b", "o", "s", "e", " ", " ", " ", " ", "b",
          "e", " ", "v", "e", "r", "b", "o", "s", "e" >> >>

\* the texts of up to MaxPreLines lines of the pool
PreInputs ==
    {join([k \in DOMAIN q |-> PreLinePool[q[k]]], <<"LF">>)
        : q \in SeqsUpTo(DOMAIN PreLinePool, MaxPreLines)}

InitPre ==
    /\ op = "preprocess"
    /\ input \in PreInputs
    /\ pc = "called"
    /\ out = Idle /\ cmd = Idle /\ fixes = 0
    /\ LayoutIdle
    /\ LoopIdle

NextPre == PreprocessTurn \/ PreprocessReturn

SpecPre == InitPre /\ [][NextPre]_vars

DashLed(l) == starts_with(trim_start(l), <<"-">>)

\* a token that is neither a flag nor an inline argument written with '='
DescriptionWord(t) == t[1] # "-" /\ ~contains(t, <<"=">>)

\* the index of the first description word behind the first token, 0 if none
FirstDescriptionWord(ts) ==
    LET words == {j \in 2..Len(ts) : DescriptionWord(ts[j])}
    IN  IF words = {} THEN 0 ELSE CHOOSE j \in words : \A i \in words : j <= i

\* C18: for a line whose trimmed content starts with '-', preprocess scans
\* the tokens left to right, stops extending the option portion at the first
\* token that looks like a description word and, when tokens remain, gives
\* for that line one pair (option tokens joined by one space, remaining tokens
\* joined by one space) and consumes exactly that one line.
C18_SameLineSplit ==
    [][(/\ pc = "called"
        /\ cursor < Len(lines(input))
        /\ DashLed(lines(input)[cursor + 1])
        /\ FirstDescriptionWord(Tokens(lines(input)[cursor + 1])) # 0)
       => LET ts == Tokens(lines(input)[cursor + 1])
              j == FirstDescriptionWord(ts)
          IN  /\ cursor' = cursor + 1
              /\ collected' = Append(collected,
                                     <<join(SubSeq(ts, 1, j - 1), <<" ">>),
                                       join(SubSeq(ts, j, Len(ts)), <<" ">>)>>)]_vars

\* the dash-led lines of a text, left-trimmed, in line order
DashLedLines(text) ==
    LET ls == lines(text)
    IN  Flatten([k \in DOMAIN ls |-> IF DashLed(ls[k]) THEN <<trim_start(ls[k])>> ELSE << >>])

\* C19: in preprocess the same-line split never fires: on every line whose
\* trimmed content starts with '-' every token extends the option portion, so
\* the option text of the pair is the whole left-trimmed line, description
\* words included; preprocess returns exactly one pair per dash-led line, in
\* line order, and no pair for any other line.
C19_WholeLineIsOptionText ==
    /\ (pc = "called" /\ cursor < Len(lines(input)) /\ DashLed(lines(input)[cursor + 1])) =>
          opt_end_scan(Tokens(lines(input)[cursor + 1]), 0, 0)
              = Len(Tokens(lines(input)[cursor + 1]))
    /\ pc = "returned" =>
          [k \in DOMAIN out |-> out[k][1]] = DashLedLines(input)

\* preprocess has returned from a block with an option and its description on
\* one line: the pair's option text is the line, its description is empty
C19_Witness ==
    /\ pc = "returned"
    /\ op = "preprocess"
    /\ Len(out) >= 2
    /\ out[1][1] = trim_start(PreLinePool[1])
    /\ out[1][2] = << >>

----------------------------------------------------------------------------
(* main.rs: a help text is built into a Command and the Command is fixed *)

MaxMainLines == 3

MainLinePool ==
    << << "-", "a", ",", " ", "-", "-", "a", "l", "l", " ", " ", "s", "h", "o",
          "w", " ", "a", "l", "l" >>,
       << " ", " ", "-", "b" >>,
       << " ", " ", " ", " ", "s", "h", "o", "w", " ", "b" >>,
       << >>,
       << "-", "-", "c", "o", "l", "o", "r", "=", "W", "H", "E", "N" >>,
       << "r", "u", "n", " ", " ", " ", " ", " ", " ", " ", "R", "u", "n", " ",
          "a", " ", "c", "o", "m", "m", "a", "n", "d" >>,
       << "U", "s", "a", "g", "e", ":", " ", "l", "s", " ", "[", "O", "P", "T",
          "I", "O", "N", "]" >> >>

\* the contents of up to MaxMainLines lines of the pool
MainInputs ==
    {join([k \in DOMAIN q |-> MainLinePool[q[k]]], <<"LF">>)
        : q \in SeqsUpTo(DOMAIN MainLinePool, MaxMainLines)}

\* cli.command, or "command" when the content comes from elsewhere
CommandNames == {<<"l", "s">>, <<"c", "o", "m", "m", "a", "n", "d">>}

\* cli.depth
Depths == {0, 1}

build_command_first_per_name(name, depth, content) ==
    LET subcommand_candidates == SubcommandParser_parse(content)
        first(k) == \A m \in 1..(k - 1) :
                        subcommand_candidates[m].cmd # subcommand_candidates[k].cmd
    IN  [Command_new(name) EXCEPT
            !.options = parse_blockwise(content),
            !.usage = parse_usage(content),
            !.subcommands =
                IF depth > 0 /\ subcommand_candidates # << >>
                THEN Flatten([k \in DOMAIN subcommand_candidates |->
                        IF first(k)
                        THEN <<[Command_new(subcommand_candidates[k].cmd) EXCEPT
                                  !.description = subcommand_candidates[k].desc]>>
                        ELSE << >>])
                ELSE << >>]

build_command(name, depth, content) ==
    LET subcommand_candidates == SubcommandParser_parse(content)
    IN  [Command_new(name) EXCEPT
            !.options = parse_blockwise(content),
            !.usage = parse_usage(content),
            !.subcommands =
                IF depth > 0 /\ subcommand_candidates # << >>
                THEN [k \in DOMAIN subcommand_candidates |->
                        [Command_new(subcommand_candidates[k].cmd) EXCEPT
                            !.description = subcommand_candidates[k].desc]]
                ELSE << >>]

InitMain ==
    /\ op = "main"
    /\ pc = "content"
    /\ input \in MainInputs
    /\ out = Idle /\ cmd = Idle /\ fixes = 0
    /\ LayoutIdle
    /\ LoopIdle

\* main.rs:58: let cmd = build_command(&cli, &content)?; out keeps the
\* Command as it was built
BuildCommand ==
    /\ pc = "content"
    /\ \E name \in CommandNames, depth \in Depths :
          cmd' = build_command(name, depth, input)
    /\ out' = cmd'
    /\ pc' = "built"
    /\ UNCHANGED <<op, input, fixes>>
    /\ LayoutUnchanged
    /\ LoopUnchanged

\* main.rs:59: Postprocessor::fix_command(cmd)
FixBuilt ==
    /\ pc = "built"
    /\ cmd' = fix_command(cmd)
    /\ fixes' = fixes + 1
    /\ pc' = "fixed"
    /\ UNCHANGED <<op, input, out>>
    /\ LayoutUnchanged
    /\ LoopUnchanged

\* main.rs:44-51: with --list-subcommands the names of the subcommands of the
\* built Command are printed and main returns
ListSubcommands ==
    /\ pc = "content"
    /\ \E name \in CommandNames, depth \in Depths :
          LET built == build_command(name, depth, input)
          IN  out' = [k \in DOMAIN built.subcommands |-> built.subcommands[k].name]
    /\ pc' = "listed"
    /\ UNCHANGED <<op, input, cmd, fixes>>
    /\ LayoutUnchanged
    /\ LoopUnchanged

NextMain == BuildCommand \/ FixBuilt \/ ListSubcommands

SpecMain == InitMain /\ [][NextMain]_vars

\* line k of the text is directly followed, inside its block, by a line that
\* does not start with '-' after left-trimming (a block ends at a blank line)
FollowedByPlainLine(ls, k) ==
    /\ k < Len(ls)
    /\ trim(ls[k + 1]) # << >>
    /\ ~DashLed(ls[k + 1])

\* the names and descriptions that the dash-led lines of a text stand for
ExpectedDescriptions(text) ==
    LET ls == lines(text)
    IN  {<<parse_opt_names(trim_start(ls[k])),
           IF FollowedByPlainLine(ls, k) THEN trim(ls[k + 1]) ELSE << >>>>
            : k \in {i \in DOMAIN ls : DashLed(ls[i])}}

\* the Opt of MainLinePool[1], 'FLAGS  description', when no plain line follows
FlagsWithDescription ==
    Opt(parse_opt_names(MainLinePool[1]), <<"s", "h", "o", "w", " ", "a", "l", "l">>, << >>)

\* line 1 of the pool stands in the text without a plain line behind it
UnfollowedFlagsLine(text) ==
    LET ls == lines(text)
    IN  \E k \in DOMAIN ls : ls[k] = MainLinePool[1] /\ ~FollowedByPlainLine(ls, k)

----------------------------------------------------------------------------
(* C21: the description taken from the next line *)

\* every token of the line extends the option portion
WholeLineIsOption(l) == opt_end_scan(Tokens(l), 0, 0) = Len(Tokens(l))

\* the pairs of the lines ls from the k-th on: a dash-led line followed by a
\* line that is not dash-led takes that line's trimmed content and both lines
\* are passed; any other dash-led line gets the empty description and one
\* line is passed; a line that is not dash-led gives nothing
RECURSIVE PairsFrom(_, _)
PairsFrom(ls, k) ==
    IF k > Len(ls) THEN << >>
    ELSE IF ~DashLed(ls[k]) THEN PairsFrom(ls, k + 1)
    ELSE IF k < Len(ls) /\ ~DashLed(ls[k + 1])
    THEN <<<<trim_start(ls[k]), trim(ls[k + 1])>>>> \o PairsFrom(ls, k + 2)
    ELSE <<<<trim_start(ls[k]), << >> >>>> \o PairsFrom(ls, k + 1)

\* C21: when the whole dash-led line is the option portion, preprocess emits
\* the entire trimmed line as option text; if a next line exists and does not
\* start with '-' after left-trimming, its trimmed content is the description
\* and both lines are consumed, the description line yielding no pair of its
\* own; otherwise the description is empty and only the one line is
\* consumed, the next dash-led line being parsed as its own option.
C21_DescriptionFromNextLine ==
    (/\ op = "preprocess"
     /\ pc = "returned"
     /\ \A k \in DOMAIN lines(input) :
           DashLed(lines(input)[k]) => WholeLineIsOption(lines(input)[k]))
        => out = PairsFrom(lines(input), 1)

\* preprocess has returned from a bare flag, its description on the next line
\* and a further option line: two pairs, the first with that description
C21_Witness ==
    /\ op = "preprocess"
    /\ pc = "returned"
    /\ lines(input) = <<PreLinePool[2], PreLinePool[3], PreLinePool[5]>>
    /\ out = <<<<trim_start(PreLinePool[2]), trim(PreLinePool[3])>>,
               <<PreLinePool[5], << >> >>>>

----------------------------------------------------------------------------
(* Layout::split_into_blocks_fast called on a text *)

MaxSplitLines == 4

SplitLinePool ==
    << << "-", "a" >>,
       << " ", " ", "-", "-", "b", " ", "x" >>,
       << "t", "e", "x", "t" >>,
       << >>,
       << " ", " " >>,
       << "x", " ", "-", " ", "y" >> >>

\* a line of introduction, an option with a wrapped line, a whitespace-only
\* line, a plain line and a further option
ScenarioE ==
    << "t", "e", "x", "t", "LF", "-", "a", "LF", "t", "e", "x", "t", "LF", " ",
       " ", "LF", "x", " ", "-", " ", "y", "LF", " ", " ", "-", "-", "b", " ",
       "x", "LF" >>

\* the texts of up to MaxSplitLines lines of the pool, with and without a
\* line ending behind the last line, and the scenario
SplitInputs ==
    LET texts == {join([k \in DOMAIN q |-> SplitLinePool[q[k]]], <<"LF">>)
                     : q \in SeqsUpTo(DOMAIN SplitLinePool, MaxSplitLines)}
    IN  texts \cup {t \o <<"LF">> : t \in texts} \cup {ScenarioE}

InitSplit ==
    /\ op = "split_into_blocks_fast"
    /\ input \in SplitInputs
    /\ pc = "called"
    /\ out = Idle /\ cmd = Idle /\ fixes = 0
    /\ LayoutIdle
    /\ LoopIdle

CallSplitIntoBlocks == Returns("split_into_blocks_fast", split_into_blocks_fast(input))

NextSplit == CallSplitIntoBlocks

SpecSplit == InitSplit /\ [][NextSplit]_vars

\* empty or whitespace-only
BlankLine(l) == \A i \in DOMAIN l : is_whitespace(l[i])

\* line k is in a block: a dash-led line at or before it, no blank line between
InBlock(ls, k) ==
    \E j \in 1..k : DashLed(ls[j]) /\ \A i \in j..k : ~BlankLine(ls[i])

\* the lines at which a block begins, and the last line of the block begun at s
BlockStarts(ls) ==
    {k \in DOMAIN ls : DashLed(ls[k]) /\ (k = 1 \/ ~InBlock(ls, k - 1))}

BlockEnd(ls, s) ==
    CHOOSE e \in s..Len(ls) :
        /\ \A i \in s..e : ~BlankLine(ls[i])
        /\ (e = Len(ls) \/ BlankLine(ls[e + 1]))

\* the elements of a set of numbers in ascending order
RECURSIVE Ascend(_)
Ascend(S) ==
    IF S = {} THEN << >>
    ELSE LET m == CHOOSE x \in S : \A y \in S : x <= y
         IN  <<m>> \o Ascend(S \ {m})

\* C22: block segmentation returns, in input order, one block for every group
\* of lines that begins at a dash-led line while no block is open and runs up
\* to, not including, the next blank line or the end of the text; lines
\* before the first dash-led line and lines between a closing blank line and
\* the next dash-led line are in no block. Hence every block is non-empty,
\* its first line is dash-led, it holds no blank line, and the blocks in
\* order are a subsequence of the input lines.
C22_BlocksAreDashLedGroups ==
    (op = "split_into_blocks_fast" /\ pc = "returned") =>
        LET ls == lines(input)
            starts == Ascend(BlockStarts(ls))
            kept == Flatten([k \in DOMAIN ls |-> IF InBlock(ls, k) THEN <<ls[k]>> ELSE << >>])
        IN  /\ Len(out) = Len(starts)
            /\ \A b \in DOMAIN out :
                  /\ out[b] = join(SubSeq(ls, starts[b], BlockEnd(ls, starts[b])), <<"LF">>)
                  /\ out[b] # << >>
                  /\ DashLed(lines(out[b])[1])
                  /\ \A i \in DOMAIN lines(out[b]) : ~BlankLine(lines(out[b])[i])
            /\ Flatten([b \in DOMAIN out |-> lines(out[b])]) = kept
            /\ \A k \in DOMAIN ls :
                  (\A j \in 1..k : ~DashLed(ls[j])) => ~InBlock(ls, k)

\* two blocks have come back from a text with a line before the first block,
\* a wrapped line inside it, and a plain line between the blocks
C22_Witness ==
    /\ op = "split_into_blocks_fast"
    /\ pc = "returned"
    /\ Len(out) = 2
    /\ Len(lines(out[1])) = 2
    /\ ~DashLed(lines(input)[1])
    /\ \E k \in DOMAIN lines(input) :
          /\ k > 1
          /\ BlankLine(lines(input)[k - 1])
          /\ ~BlankLine(lines(input)[k])
          /\ ~InBlock(lines(input), k)

----------------------------------------------------------------------------
(* C23: deduplication comes before the filter *)

\* the raw texts of the names of an option, in stored order
RawNames(o) == [i \in DOMAIN o.names |-> o.names[i].raw]

\* two options with the same raw names and the same argument
SameKey(a, b) == RawNames(a) = RawNames(b) /\ a.argument = b.argument

\* position k holds the first option of q with its key
FirstOfKey(q, k) == \A m \in 1..(k - 1) : ~SameKey(q[m], q[k])

\* at every node: when the first option of a key has an empty description, the
\* fixed node has no option of that key
RECURSIVE FirstEmptyKeysGone(_, _)
FirstEmptyKeysGone(before, after) ==
    /\ \A k \in DOMAIN before.options :
          (FirstOfKey(before.options, k) /\ before.options[k].description = << >>)
              => \A j \in DOMAIN after.options :
                    ~SameKey(after.options[j], before.options[k])
    /\ DOMAIN after.subcommands = DOMAIN before.subcommands
    /\ \A i \in DOMAIN before.subcommands :
          FirstEmptyKeysGone(before.subcommands[i], after.subcommands[i])

\* C23: fix_command deduplicates before it filters and keeps only the first
\* occurrence of a dedup key: when the first option of a (names, argument) key
\* has an empty description and a later option of the key a non-empty one,
\* the later is removed as a duplicate and the first as invalid, so no option
\* of that key is left although a valid one was in the input.
C23_DedupBeforeFilter ==
    (op = "fix_command" /\ fixes >= 1) => FirstEmptyKeysGone(input, cmd)

\* fix_command has run on a command whose first option of a key has an empty
\* description and whose later option of that key is valid; none is left
C23_Witness ==
    /\ op = "fix_command"
    /\ fixes = 1
    /\ \E k, m \in DOMAIN input.options :
          /\ k < m
          /\ FirstOfKey(input.options, k)
          /\ input.options[k].description = << >>
          /\ SameKey(input.options[k], input.options[m])
          /\ is_valid_option(input.options[m])
          /\ \A j \in DOMAIN cmd.options : ~SameKey(cmd.options[j], input.options[k])

----------------------------------------------------------------------------
(* fix_command applied to a Command loaded from JSON, whose options may hold *)
(* their names in any order                                                  *)

MaxLoadOpts == 3

DashA == OptName_new(<<"-", "a">>, "ShortType")
DashB == OptName_new(<<"-", "b">>, "ShortType")

LoadOptPool ==
    { Opt(<<DashA, DashB>>, << >>, <<"x">>),
      Opt(<<DashB, DashA>>, << >>, <<"y">>),
      Opt(<<DashA, DashB>>, << >>, <<"z">>),
      Opt(<<DashB, DashA>>, <<"F">>, <<"x">>),
      Opt(<<DashA>>, << >>, <<"x">>) }

\* main.rs:152: the Command that serde_json reads from the file
LoadInputs ==
    {[Command_new(<<"c", "m", "d">>) EXCEPT !.options = q]
        : q \in SeqsUpTo(LoadOptPool, MaxLoadOpts)}

InitLoad ==
    /\ op = "fix_command"
    /\ input \in LoadInputs
    /\ pc = "called"
    /\ out = Idle /\ cmd = Idle /\ fixes = 0
    /\ LayoutIdle
    /\ LoopIdle

NextLoad == CallFixCommand

SpecLoad == InitLoad /\ [][NextLoad]_vars

\* the same raw name texts, whatever their stored order, and the same argument
SameSortedKey(a, b) ==
    /\ Len(a.names) = Len(b.names)
    /\ {a.names[i].raw : i \in DOMAIN a.names} = {b.names[i].raw : i \in DOMAIN b.names}
    /\ a.argument = b.argument

\* C24: fix_command builds the dedup key of an option from its name raw-texts
\* in sorted order, joined by '|', plus its argument; two options of one
\* command whose names hold the same raw-texts in different stored orders and
\* whose arguments are equal collapse into one, the first being kept.
C24_SortedKeyCollapse ==
    (op = "fix_command" /\ pc = "returned" /\ input \in LoadInputs) =>
        \A i, j \in DOMAIN input.options :
            (i < j /\ SameSortedKey(input.options[i], input.options[j])
                   /\ FirstOfKey(input.options, i)
                   /\ \A m \in 1..(i - 1) : ~SameSortedKey(input.options[m], input.options[i]))
                => /\ \E k \in DOMAIN out.options : out.options[k] = input.options[i]
                   /\ \A k \in DOMAIN out.options :
                         SameSortedKey(out.options[k], input.options[i])
                             => out.options[k] = input.options[i]

----------------------------------------------------------------------------
(* Parser::parse_line called on a block *)

MaxLineLines == 3

LinePool ==
    << << "-", "v", ",", " ", "-", "-", "v", "e", "r", "b", "o", "s", "e" >>,
       << " ", " ", "v", "e", "r", "b", "o", "s", "e" >>,
       << "-", "v", ",", " ", "-", "-", "v", "e", "r", "b", "o", "s", "e", " ",
          " ", "v", "e", "r", "b", "o", "s", "e" >>,
       << "-", "v" >>,
       << "-", "-", "v", "e", "r", "b", "o", "s", "e", ",", " ", "-", "v" >>,
       << "-", "v", " ", "F", "I", "L", "E" >> >>

\* the blocks of up to MaxLineLines lines of the pool
LineInputs ==
    {join([k \in DOMAIN q |-> LinePool[q[k]]], <<"LF">>)
        : q \in SeqsUpTo(DOMAIN LinePool, MaxLineLines)}

InitLine ==
    /\ op = "parse_line"
    /\ input \in LineInputs
    /\ pc = "called"
    /\ out = Idle /\ cmd = Idle /\ fixes = 0
    /\ LayoutIdle
    /\ LoopIdle

NextLine == PreprocessTurn \/ ParseLineReturn

SpecLine == InitLine /\ [][NextLine]_vars

\* the Opts built from the pairs, in pair order
OptsOfPairs(pairs) ==
    Flatten([k \in DOMAIN pairs |-> parse_with_opt_part(pairs[k][1], pairs[k][2])])

\* a list without the elements that are equal to an earlier one
FirstOccurrences(q) ==
    Flatten([k \in DOMAIN q |->
                IF \E m \in 1..(k - 1) : q[m] = q[k] THEN << >> ELSE <<q[k]>>])

\* C25: parse_line returns the Opts built from the block's pairs in pair
\* order, every Opt that is equal in all of names, argument and description
\* to an earlier one removed, the first occurrence staying in its place; Opts
\* that differ in any of the three fields are all kept.
C25_ExactDuplicatesDropped ==
    (op = "parse_line" /\ pc = "returned") =>
        LET built == OptsOfPairs(collected)
        IN  /\ out = FirstOccurrences(built)
            /\ \A k \in DOMAIN built : \E j \in DOMAIN out : out[j] = built[k]
            /\ \A i, j \in DOMAIN out : i # j =>
                  \/ out[i].names # out[j].names
                  \/ out[i].argument # out[j].argument
                  \/ out[i].description # out[j].description

\* parse_line has returned from three pairs, two of them giving the same Opt
\* and the third an Opt of the same names that differs in another field
C25_Witness ==
    /\ op = "parse_line"
    /\ pc = "returned"
    /\ Len(collected) = 3
    /\ Len(OptsOfPairs(collected)) = 3
    /\ Len(out) = 2
    /\ out[1].names = out[2].names

----------------------------------------------------------------------------
(* Parser::parse_opt_arg called on an option text *)

MaxArgTokens == 4

ArgTokenPool ==
    { << "-", "o" >>,
      << "-", "o", "," >>,
      << "F", "I", "L", "E" >>,
      << "." >>,
      << "/" >>,
      << "a", "|", "b" >>,
      << "N" >>,
      << >> }

\* a bare flag, a flag whose argument is '.', and a flag with an argument
ScenarioF ==
    << "-", "o", ",", " ", "-", "-", "o", "u", "t", " ", ".", " ", "/", " ",
       "-", "f", " ", "F", "I", "L", "E" >>

\* the scenario, and up to MaxArgTokens pieces with one space between them; an empty piece
\* gives a leading, a trailing or a doubled space
ArgTexts ==
    {join(q, <<" ">>) : q \in SeqsUpTo(ArgTokenPool, MaxArgTokens) \ {<< >>}}
        \cup {<< >>, ScenarioF}

InitArg ==
    /\ op = "parse_opt_arg"
    /\ input \in ArgTexts
    /\ pc = "called"
    /\ out = Idle /\ cmd = Idle /\ fixes = 0
    /\ LayoutIdle
    /\ LoopIdle

CallParseOptArg == Returns("parse_opt_arg", parse_opt_arg(input))

NextArg == CallParseOptArg

SpecArg == InitArg /\ [][NextArg]_vars

\* the pieces of the text between ',', '/' and '|'
Groups(text) == split(text, {",", "/", "|"})

\* the tokens of a group behind its first, joined by one space
Candidate(g) == join(SubSeq(Tokens(g), 2, Len(Tokens(g))), <<" ">>)

Qualifies(g) == Len(Tokens(g)) >= 2 /\ Candidate(g) # <<".">>

\* C26: parse_opt_arg splits the text on ',', '/' and '|' into groups and
\* returns, for the first group from the left that has at least 2 whitespace
\* tokens and whose tokens after the first, joined by one space, are not
\* exactly '.', that joined string; when no group qualifies it returns the
\* empty string. The first token of a group is never part of the argument.
C26_FirstQualifyingGroup ==
    (op = "parse_opt_arg" /\ pc = "returned") =>
        LET gs == Groups(input)
            good == {k \in DOMAIN gs : Qualifies(gs[k])}
        IN  IF good = {} THEN out = << >>
            ELSE LET first == CHOOSE k \in good : \A m \in good : k <= m
                 IN  /\ out = Candidate(gs[first])
                     /\ out # << >>

\* parse_opt_arg has passed over a group of one token and a group whose
\* candidate is '.', and has returned the candidate of a later group
C26_Witness ==
    /\ op = "parse_opt_arg"
    /\ pc = "returned"
    /\ Len(Groups(input)) = 3
    /\ Len(Tokens(Groups(input)[1])) = 1
    /\ Candidate(Groups(input)[2]) = <<".">>
    /\ out = Candidate(Groups(input)[3])
    /\ out # << >>

----------------------------------------------------------------------------
(* fix_command called on a Command whose nodes each carry a name, a          *)
(* description, a usage and a version of their own                           *)

InitFrame ==
    /\ op = "fix_command"
    /\ input \in JsonInputs
    /\ pc = "called"
    /\ out = Idle /\ cmd = Idle /\ fixes = 0
    /\ LayoutIdle
    /\ LoopIdle

NextFrame == CallFixCommand

SpecFrame == InitFrame /\ [][NextFrame]_vars

\* a is b with some elements left out
RECURSIVE IsSubsequence(_, _)
IsSubsequence(a, b) ==
    IF a = << >> THEN TRUE
    ELSE IF b = << >> THEN FALSE
    ELSE IF Head(a) = Head(b) THEN IsSubsequence(Tail(a), Tail(b))
    ELSE IsSubsequence(a, Tail(b))

\* at every node only the membership of options has changed
RECURSIVE OnlyOptionsDropped(_, _)
OnlyOptionsDropped(before, after) ==
    /\ after.name = before.name
    /\ after.description = before.description
    /\ after.usage = before.usage
    /\ after.version = before.version
    /\ IsSubsequence(after.options, before.options)
    /\ DOMAIN after.subcommands = DOMAIN before.subcommands
    /\ \A i \in DOMAIN before.subcommands :
          OnlyOptionsDropped(before.subcommands[i], after.subcommands[i])

\* the number of options in the tree
RECURSIVE OptionCount(_)
RECURSIVE OptionCountOfForest(_)
OptionCount(c) == Len(c.options) + OptionCountOfForest(c.subcommands)

OptionCountOfForest(f) ==
    IF f = << >> THEN 0 ELSE OptionCount(Head(f)) + OptionCountOfForest(Tail(f))

\* C27: fix_command changes nothing but option membership: at every node the
\* name, description, usage and version are unchanged, the subcommands are
\* the same nodes in the same order, and the options of the result are a
\* subsequence of the node's input options in their original relative order,
\* each surviving Opt unchanged in names, argument and description.
C27_OnlyOptionMembershipChanges ==
    (op = "fix_command" /\ pc = "returned" /\ input \in JsonInputs)
        => OnlyOptionsDropped(input, out)

\* fix_command has returned from a labelled tree with a subcommand, having
\* removed an option and kept another
C27_Witness ==
    /\ op = "fix_command"
    /\ pc = "returned"
    /\ input \in JsonInputs
    /\ input.version # << >>
    /\ input.subcommands # << >>
    /\ OptionCount(out) >= 1
    /\ OptionCount(out) < OptionCount(input)

----------------------------------------------------------------------------
(* build_command called with a cli and a content *)

MaxBuildLines == 3

BuildLinePool ==
    << << "r", "u", "n", " ", " ", " ", " ", " ", " ", " ", "R", "u", "n", " ",
          "a", " ", "c", "o", "m", "m", "a", "n", "d" >>,
       << "b", "u", "i", "l", "d", " ", " ", " ", " ", " ", "B", "u", "i", "l",
          "d", " ", "a", " ", "p", "r", "o", "j", "e", "c", "t" >>,
       << " ", " ", "R", "u", "n", " ", "a", " ", "c", "o", "m", "m", "a", "n",
          "d" >>,
       << >>,
       << "-", "v", " ", " ", "v", "e", "r", "b", "o", "s", "e" >>,
       << "r", "u", "n" >> >>

\* what build_command reads: cli.command, cli.depth and the content, of up to
\* MaxBuildLines lines of the pool
BuildInputs ==
    {[command |-> <<"g", "i", "t">>, depth |-> d,
      content |-> join([k \in DOMAIN q |-> BuildLinePool[q[k]]], <<"LF">>)]
        : d \in Depths, q \in SeqsUpTo(DOMAIN BuildLinePool, MaxBuildLines)}

InitBuild ==
    /\ op = "build_command"
    /\ input \in BuildInputs
    /\ pc = "called"
    /\ out = Idle /\ cmd = Idle /\ fixes = 0
    /\ LayoutIdle
    /\ LoopIdle

CallBuildCommand ==
    Returns("build_command", build_command(input.command, input.depth, input.content))

NextBuild == CallBuildCommand

SpecBuild == InitBuild /\ [][NextBuild]_vars

\* a child Command as build_command pushes it for an entry
ChildOf(e) == [Command_new(e.cmd) EXCEPT !.description = e.desc]

\* line k has a valid name, at least 3 tokens, and a non-blank line that does
\* not start with '-' behind it
TwiceFound(ls, k) ==
    /\ k < Len(ls)
    /\ NonBlank(ls[k])
    /\ Len(Tokens(ls[k])) >= 3
    /\ ValidToken(Tokens(ls[k])[1])
    /\ NonBlank(ls[k + 1])
    /\ ~DashLed(ls[k + 1])

----------------------------------------------------------------------------
(* main.rs: the text that was read is prepared and then parsed *)

MaxInputLines == 3

InputLinePool ==
    << << "-", " ", "x" >>,
       << " ", " ", "-", "TAB", "x" >>,
       << "-", "NBSP", "x" >>,
       << "-", " ", "-", "v" >>,
       << "t", "e", "x", "t" >>,
       << >>,
       << " ", " ", "-", " ", " ", "-", " ", "y" >>,
       << "-", "v", " ", " ", "d" >> >>

\* the texts of up to MaxInputLines lines of the pool
RawInputs ==
    {join([k \in DOMAIN q |-> InputLinePool[q[k]]], <<"LF">>)
        : q \in SeqsUpTo(DOMAIN InputLinePool, MaxInputLines)}

InitInput ==
    /\ op = "main"
    /\ pc = "read"
    /\ input \in RawInputs
    /\ out = Idle /\ cmd = Idle /\ fixes = 0
    /\ LayoutIdle
    /\ LoopIdle

\* main.rs:104-106: the end of get_input_content; out is the content
GetInputContent ==
    /\ pc = "read"
    /\ LET bulletless == remove_bullets(normalize_text(input))
       IN  IF bulletless = Panic
           THEN out' = Panic /\ pc' = "panicked"
           ELSE out' = unicode_spaces_to_ascii(bulletless) /\ pc' = "content"
    /\ UNCHANGED <<op, input, cmd, fixes>>
    /\ LayoutUnchanged
    /\ LoopUnchanged

\* main.rs:57-58: build_command on the content
BuildFromContent ==
    /\ op = "main"
    /\ pc = "content"
    /\ \E name \in CommandNames, depth \in Depths :
          cmd' = build_command(name, depth, out)
    /\ pc' = "built"
    /\ UNCHANGED <<op, input, out, fixes>>
    /\ LayoutUnchanged
    /\ LoopUnchanged

NextInput == GetInputContent \/ BuildFromContent

SpecInput == InitInput /\ [][NextInput]_vars

AsciiWhitespace == {" ", "TAB", "LF", "FF", "CR"}

\* after its indentation the line is '-' followed by an ASCII whitespace
DashThenAscii(l) ==
    LET t == trim_start(l)
    IN  Len(t) >= 2 /\ t[1] = "-" /\ t[2] \in AsciiWhitespace

\* after its indentation the line is '-' followed by U+00A0
DashThenNbsp(l) ==
    LET t == trim_start(l)
    IN  Len(t) >= 2 /\ t[1] = "-" /\ t[2] = "NBSP"

\* the text of the line behind the '-' and the whitespace after it
AfterDash(l) == trim_start(Tail(trim_start(l)))

\* the words of a line between whitespace and ',', '/', '|' that are a lone '-'
LoneDashes(l) ==
    LET words == SelectNonEmpty(split(l, {c \in Alphabet : is_whitespace(c)} \cup {",", "/", "|"}))
    IN  {k \in DOMAIN words : words[k] = <<"-">>}

\* the line has a lone '-' that is not a bullet
DashBesideBullet(l) ==
    Cardinality(LoneDashes(l)) > (IF DashThenAscii(l) THEN 1 ELSE 0)

HasSingleDashAlone(options) ==
    \E i \in DOMAIN options : \E n \in DOMAIN options[i].names :
        options[i].names[n] = OptName_new(<<"-">>, "SingleDashAlone")

\* the k-th line of the content, empty when the content ends before it
ContentLine(k) == IF k <= Len(lines(out)) THEN lines(out)[k] ELSE << >>

\* C29: in main's input pipeline (normalize_text, remove_bullets,
\* unicode_spaces_to_ascii, then parsing) a line whose content after
\* indentation is '-' followed by an ASCII whitespace loses that '-' as a
\* bullet before parsing: this '-' never yields a SingleDashAlone option name
\* and the line starts a block only if the text after the bullet itself
\* begins with '-'; the same line with U+00A0 directly after the '-' keeps
\* its dash, starts a block and yields a SingleDashAlone name.
C29_BulletDashLostBeforeParsing ==
    (op = "main" /\ pc \in {"content", "built"} /\ input \in RawInputs) =>
        LET raw == lines(input)
        IN  /\ \A k \in DOMAIN raw : DashThenAscii(raw[k]) =>
                  /\ trim_start(ContentLine(k)) = AfterDash(raw[k])
                       \/ trim_start(ContentLine(k)) = replace_double_space(AfterDash(raw[k]))
                  /\ DashLed(ContentLine(k)) <=> starts_with(AfterDash(raw[k]), <<"-">>)
            /\ \A k \in DOMAIN raw : DashThenNbsp(raw[k]) =>
                  /\ DashLed(ContentLine(k))
                  /\ InBlock(lines(out), k)
                  /\ pc = "built" => HasSingleDashAlone(cmd.options)
            /\ pc = "built" =>
                  /\ HasSingleDashAlone(cmd.options) =>
                        \E k \in DOMAIN raw : DashBesideBullet(raw[k])
                  /\ (\A k \in DOMAIN raw :
                         DashLed(raw[k]) =>
                            DashThenAscii(raw[k]) /\ ~starts_with(AfterDash(raw[k]), <<"-">>))
                        => cmd.options = << >>

\* a text with '- x' and with '-' U+00A0 'x' has been prepared and parsed:
\* the first line starts no block, the second gave the name '-'
C29_Witness ==
    /\ op = "main"
    /\ pc = "built"
    /\ lines(input) = <<InputLinePool[1], InputLinePool[3]>>
    /\ ~DashLed(ContentLine(1))
    /\ Len(cmd.options) = 1
    /\ HasSingleDashAlone(cmd.options)

----------------------------------------------------------------------------
(* Layout::get_option_offsets called on a text *)

MaxOffsetLines == 4

OffsetLinePool ==
    << << "-", "a" >>,
       << " ", " ", "-", "a" >>,
       << "-", "-", "b" >>,
       << " ", " ", "-", "-", "b" >>,
       << " ", " ", "t", "e", "x", "t" >>,
       << >>,
       << "NBSP", "-", "a" >> >>

\* layout.rs:260-262: short and long options at one indentation
ScenarioG ==
    << " ", " ", " ", " ", " ", " ", "-", "a", ",", " ", "-", "-", "a", "l",
       "l", " ", " ", " ", " ", " ", " ", " ", " ", "s", "h", "o", "w", " ",
       "a", "l", "l", "LF", " ", " ", " ", " ", " ", " ", "-", "-", "v", "e",
       "r", "b", "o", "s", "e", " ", " ", " ", " ", " ", " ", " ", " ", "b",
       "e", " ", "v", "e", "r", "b", "o", "s", "e", "LF" >>

\* the scenario, and the texts of up to MaxOffsetLines lines of the pool
OffsetInputs ==
    {join([k \in DOMAIN q |-> OffsetLinePool[q[k]]], <<"LF">>)
        : q \in SeqsUpTo(DOMAIN OffsetLinePool, MaxOffsetLines)} \cup {ScenarioG}

InitOffsets ==
    /\ op = "get_option_offsets"
    /\ input \in OffsetInputs
    /\ pc = "called"
    /\ out = Idle /\ cmd = Idle /\ fixes = 0
    /\ LayoutIdle
    /\ LoopIdle

\* layout.rs:162-181, the result being any the map's iteration order allows
CallGetOptionOffsets ==
    /\ pc = "called"
    /\ op = "get_option_offsets"
    /\ out' \in get_option_offsets(input)
    /\ pc' = "returned"
    /\ UNCHANGED <<op, input, cmd, fixes>>
    /\ LayoutUnchanged
    /\ LoopUnchanged

NextOffsets == CallGetOptionOffsets

SpecOffsets == InitOffsets /\ [][NextOffsets]_vars

\* the lines of the short group and of the long group
ShortGroup(ls) ==
    {k \in DOMAIN ls : DashLed(ls[k]) /\ ~starts_with(trim_start(ls[k]), <<"-", "-">>)}

LongGroup(ls) == {k \in DOMAIN ls : starts_with(trim_start(ls[k]), <<"-", "-">>)}

\* the indentation of a line, in bytes
Indentation(l) == len(l) - len(trim_start(l))

\* the indentations that no other indentation of the group outnumbers
MostFrequent(ls, group) ==
    LET times(o) == Cardinality({k \in group : Indentation(ls[k]) = o})
    IN  {Indentation(ls[k]) : k \in {j \in group :
            \A i \in group : times(Indentation(ls[i])) <= times(Indentation(ls[j]))}}

\* C30: get_option_offsets returns the empty list when no line starts with
\* '-' after left-trimming; otherwise it takes, for the short group (lines
\* starting with '-' but not '--') and for the long group (lines starting
\* with '--') separately, an indentation offset whose number of occurrences
\* in that group is maximal, and returns one entry when only one group is
\* non-empty or both offsets are equal, and two distinct entries, short
\* first, otherwise; the result never has more than 2 entries.
C30_OffsetsOfTheTwoGroups ==
    (op = "get_option_offsets" /\ pc = "returned") =>
        LET ls == lines(input)
            short == ShortGroup(ls)
            long == LongGroup(ls)
        IN  /\ DOMAIN out \subseteq 1..2
            /\ (\A k \in DOMAIN ls : ~DashLed(ls[k])) <=> out = << >>
            /\ (short # {} /\ long = {}) =>
                  Len(out) = 1 /\ out[1] \in MostFrequent(ls, short)
            /\ (short = {} /\ long # {}) =>
                  Len(out) = 1 /\ out[1] \in MostFrequent(ls, long)
            /\ (short # {} /\ long # {}) =>
                  \/ /\ Len(out) = 1
                     /\ out[1] \in MostFrequent(ls, short) \cap MostFrequent(ls, long)
                  \/ /\ Len(out) = 2
                     /\ out[1] # out[2]
                     /\ out[1] \in MostFrequent(ls, short)
                     /\ out[2] \in MostFrequent(ls, long)

\* get_option_offsets has returned two entries from a text whose short group
\* has one indentation twice and another once
C30_Witness ==
    /\ op = "get_option_offsets"
    /\ pc = "returned"
    /\ lines(input) = <<OffsetLinePool[1], OffsetLinePool[2], OffsetLinePool[2],
                        OffsetLinePool[3]>>
    /\ out = <<2, 0>>

====
